---- MODULE Spec2Model ----
(***************************************************************************)
(* Model of the connection resilience engine of antigravity-quota-watcher. *)
(*                                                                         *)
(* QuotaService (src/src/services/QuotaService.ts) runs on the Node.js     *)
(* event loop: one macrotask (a public call, a timer callback, an I/O      *)
(* completion) runs to its first real suspension (network I/O or a timer); *)
(* the continuation of an await on an already settled promise is a         *)
(* microtask and runs before any other macrotask.                          *)
(*                                                                         *)
(* Around it: ErrorRecoveryService, ServiceOrchestrator and                *)
(* PortDetectionService (rediscovery and recovery), and the two pieces of  *)
(* infrastructure they are built on, EventBus and Container, each with     *)
(* its own variables and specification.                                    *)
(***************************************************************************)
EXTENDS Integers, Sequences, FiniteSets, Bags, TLC

\* ---------------------------------------------------------------- bounds
\* in-flight fetches plus pending retry timers
MaxPending == 2
\* live setInterval timers
MaxTimers == 2
\* new fetches are started only while consecutiveErrors is below this
MaxErrors == 5
\* the same three limits in the transport scope
MaxTransportPending == 1
MaxTransportTimers == 1
MaxTransportErrors == 1
\* three-minute steps the clock advances in the rediscovery scope
MaxRediscoverySteps == 2
\* five-minute steps the clock advances in the recovery scope
MaxRecoverySteps == 3
\* records of the error history, open recovery dialogs, detectPort runs,
\* attemptAutoFix calls in progress, pending flag-reset timers
MaxHistory == 4
MaxDialogs == 1
\* showErrorMessage calls awaiting an answer in the "dialogs" scope
MaxPendingDialogs == 2
MaxRuns == 2
MaxFixes == 1
MaxResetTimers == 1
\* plaintext fallback requests followed after one setConnectionInfo
MaxFallbackRequests == 6
\* EventBus: on()/once() calls, onError() calls, emitAsync calls and
\* promises of async handlers pending at a time, firings followed per
\* once() subscription
MaxSubscriptions == 2
MaxErrorHandlers == 2
MaxAsyncEmits == 1
MaxPromises == 1
MaxOnceFirings == 2
\* Container: register calls, objects created by factories, invocations
\* followed per registration
MaxRegistrations == 3
MaxInstances == 3
MaxFactoryCalls == 2

\* ------------------------------------------------------ program constants
MAX_RETRY_COUNT == 3
RETRY_DELAY_MS == 5000
MAX_HTTP_FALLBACK_COUNT == 5
\* ErrorRecoveryService
MAX_HISTORY_SIZE == 20
ERROR_PATTERN_WINDOW == 5 * 60 * 1000
AutoFixResetMs == 10 * 60 * 1000
\* ServiceOrchestrator
autoRedetectCooldown == 3 * 60 * 1000
\* ConfigService defaults
DefaultPollingInterval == 60 * 1000

\* JavaScript undefined, for strings and for numbers
None == "undefined"
NoPort == -1

GET_USER_STATUS == "GET_USER_STATUS"
COMMAND_MODEL_CONFIG == "COMMAND_MODEL_CONFIG"

QUOTA_UPDATE == "quota:update"
QUOTA_FETCH_START == "quota:fetch:start"
QUOTA_FETCH_SUCCESS == "quota:fetch:success"
QUOTA_FETCH_ERROR == "quota:fetch:error"
QUOTA_RETRY == "quota:retry"
PORT_DETECTION_START == "port:detect:start"
PORT_DETECTION_SUCCESS == "port:detect:success"
PORT_DETECTION_FAILED == "port:detect:error"

\* enum ErrorType
CONNECTION_REFUSED == "connection_refused"
PROTOCOL_ERROR == "protocol_error"
TIMEOUT == "timeout"
PORT_DETECTION == "port_detection"
AUTH_ERROR == "auth_error"
UNKNOWN == "unknown"

\* Date.now() in milliseconds: one hour after the epoch at activation
Minute == 60 * 1000
StartTime == 60 * Minute

\* ------------------------------------------------------------ input sets
\* arguments of setConnectionInfo(port, httpPort?, csrfToken?)
PortArgs == {51001}
HttpPortArgs == {NoPort, 51000}
TokenArgs == {"", "abcDEF123456"}
\* arguments of startPolling / retryFromError (ConfigService: >= 10 s)
IntervalArgs == {30000, 60000}

\* ------------------------------------------------------ errors, responses
\* Error objects: code (None when the error has none) and message.
\* The Chinese messages of the source are written in ASCII.
NoError == [code |-> None, message |-> None]
MissingTokenError == [code |-> None, message |-> "missing CSRF token"]
HttpStatusError == [code |-> None, message |-> "HTTP error: 500"]
ParseResponseError == [code |-> None, message |-> "failed to parse response"]
TimeoutError == [code |-> None, message |-> "request timed out"]
MissingUserStatusError == [code |-> None, message |-> "invalid API response: missing userStatus"]
\* errors of the socket, emitted on req 'error'
SocketErrors ==
  { [code |-> "ECONNREFUSED", message |-> "connect ECONNREFUSED 127.0.0.1"],
    [code |-> "EPROTO", message |-> "write EPROTO"],
    [code |-> "ERR_SSL_WRONG_VERSION_NUMBER",
     message |-> "SSL routines:ssl3_get_record:WRONG_VERSION_NUMBER"] }

\* String.prototype.toLowerCase on the messages above
ToLowerCase(msg) ==
  CASE msg = "connect ECONNREFUSED 127.0.0.1" -> "connect econnrefused 127.0.0.1"
    [] msg = "write EPROTO" -> "write eproto"
    [] msg = "SSL routines:ssl3_get_record:WRONG_VERSION_NUMBER"
         -> "ssl routines:ssl3_get_record:wrong_version_number"
    [] msg = "HTTP error: 500" -> "http error: 500"
    [] msg = "missing CSRF token" -> "missing csrf token"
    [] msg = "invalid API response: missing userStatus"
         -> "invalid api response: missing userstatus"
    [] msg = "connect ETIMEDOUT 127.0.0.1" -> "connect etimedout 127.0.0.1"
    [] msg = "403 Forbidden" -> "403 forbidden"
    [] msg = "cannot detect the Antigravity process"
         -> "cannot detect the antigravity process"
    [] msg = "spawn powershell ENOENT" -> "spawn powershell enoent"
    [] OTHER -> msg

\* msg.includes('wrong_version_number')
IncludesWrongVersionNumber(msg) ==
  msg \in {"ssl routines:ssl3_get_record:wrong_version_number"}

\* errors of a failed detection: PortDetectionService finds no process,
\* ServiceOrchestrator receives the null result
NoProcessError ==
  [code |-> None, message |-> "cannot detect the Antigravity process"]
EmptyResultError ==
  [code |-> None, message |-> "detection returned an empty result"]
\* the process detector fails to run its command
DetectorError == [code |-> "ENOENT", message |-> "spawn powershell ENOENT"]
\* errors a client hands to ErrorRecoveryService.handleError
RecoveryErrors ==
  { [code |-> "ECONNREFUSED", message |-> "connect ECONNREFUSED 127.0.0.1"],
    [code |-> "EPROTO", message |-> "write EPROTO"],
    [code |-> "ETIMEDOUT", message |-> "connect ETIMEDOUT 127.0.0.1"],
    [code |-> None, message |-> "port not found"],
    [code |-> None, message |-> "403 Forbidden"],
    TimeoutError }

\* the keywords of categorizeError that a lower-cased message contains
KeywordsIn(msg) ==
  CASE msg = "connect econnrefused 127.0.0.1" -> {"econnrefused"}
    [] msg = "write eproto" -> {"eproto"}
    [] msg = "ssl routines:ssl3_get_record:wrong_version_number"
         -> {"wrong_version"}
    [] msg = "connect etimedout 127.0.0.1" -> {"etimedout"}
    [] msg = "port not found" -> {"port", "not found"}
    [] msg = "403 forbidden" -> {"forbidden"}
    [] OTHER -> {}
\* msg.includes(word)
Includes(msg, word) == word \in KeywordsIn(msg)

CategorizeError(error) ==
  LET msg == ToLowerCase(error.message)
  IN IF Includes(msg, "econnrefused") \/ Includes(msg, "connection refused")
       THEN CONNECTION_REFUSED
     ELSE IF Includes(msg, "eproto") \/ Includes(msg, "wrong_version")
       THEN PROTOCOL_ERROR
     ELSE IF Includes(msg, "timeout") \/ Includes(msg, "etimedout")
       THEN TIMEOUT
     ELSE IF Includes(msg, "port") \/ Includes(msg, "not found")
       THEN PORT_DETECTION
     ELSE IF Includes(msg, "unauthorized") \/ Includes(msg, "forbidden")
       THEN AUTH_ERROR
     ELSE UNKNOWN

\* What the network does with one request: a socket error, a timeout, or a
\* response (status code, whether the body is JSON, its application code,
\* whether it carries userStatus).
Response(status, json, code, userStatus) ==
  [kind |-> "response", statusCode |-> status, json |-> json, code |-> code,
   userStatus |-> userStatus, error |-> MissingTokenError]
\* failures are all alike to the polling engine (one catch block)
PollingOutcomes ==
  { Response(200, TRUE, "OK", TRUE),
    Response(200, TRUE, "PERMISSION_DENIED", TRUE),
    [kind |-> "timeout", statusCode |-> 0, json |-> FALSE, code |-> None,
     userStatus |-> FALSE, error |-> TimeoutError] }
NetOutcomes ==
  { Response(200, TRUE, None, TRUE),
    Response(200, TRUE, "OK", TRUE),
    Response(200, TRUE, "OK", FALSE),
    Response(200, TRUE, "PERMISSION_DENIED", TRUE),
    Response(200, FALSE, None, FALSE),
    Response(500, TRUE, None, FALSE) }
  \cup { [kind |-> "error", statusCode |-> 0, json |-> FALSE, code |-> None,
          userStatus |-> FALSE, error |-> e] : e \in SocketErrors }
  \cup { [kind |-> "timeout", statusCode |-> 0, json |-> FALSE, code |-> None,
          userStatus |-> FALSE, error |-> TimeoutError] }

\* CommandRegistry: quickRefreshCooldown
QuickRefreshCooldown == 5000
\* the clock of the "commands" scope moves in steps of half the cooldown
MaxCommandSteps == 3
\* requests and retry timers pending after a command
MaxCommandPending == 4

\* ------------------------------------------------------------- variables
VARIABLES
  \* QuotaService fields
  port, httpPort, csrfToken, allowHttpFallback, apiMethod,
  pollingInterval,      \* handle of the interval timer, 0 when undefined
  isFirstAttempt, consecutiveErrors, retryCount, isRetrying,
  isPollingTransition, httpFallbackCount, disposed,
  \* the part of the environment the specification exercises:
  \* "polling" (schedule, retries; fallback left disabled), "transport"
  \* (request layer in full; one fetch at a time), "timers" (one
  \* startPolling against a dead endpoint, then timer callbacks only),
  \* "rediscovery" (the services as ServiceOrchestrator wires them, the
  \* clock in steps of three minutes), "recovery" (ErrorRecoveryService with
  \* the callbacks of a client, the clock in steps of five minutes),
  \* "fallback" (polling a server that speaks plain HTTP only), "history"
  \* (ErrorRecoveryService on the bus before a recovery context is set),
  \* "bus" (EventBus with a client), "container" (Container with a client)
  \* "commands" (the refresh commands of CommandRegistry with the
  \* services as wired, the clock in steps of 2.5 seconds) or "dialogs"
  \* (as "recovery", with errors reported while a dialog is open) or
  \* "suppression" (as "timers", with an endpoint that may answer and a
  \* user who refreshes)
  scope,
  \* event loop
  intervalTimers,       \* id -> period of a live setInterval timer, else 0
  retryTimers,          \* delays of the pending setTimeout retry callbacks
  inflight,             \* bag of requests awaiting the network
  microtask,            \* continuation of startPolling / retryFromError
  \* what the last step did
  op,                   \* the operation or callback that ran
  started,              \* which fetch routine it entered, None when none
  emitted,              \* events it emitted on the bus, in order
  caught,               \* the error a catch block of it received, or NoError
  sent,                 \* network requests it transmitted
  halted,               \* "exhausted" since the terminal error, "retryFailed"
                        \* since a failed retryFromError, until the next
                        \* startPolling / retryFromError call; "recovering"
                        \* during a retryFromError called in such a state;
                        \* else "no"
  stopCall,             \* client calls of stopPolling(): "never" made so far;
                        \* "stopped" since one, until the next startPolling /
                        \* retryFromError call; "resumed" from that call on
  now,                  \* Date.now()
  \* ErrorRecoveryService
  errorHistory,         \* ErrorRecord: type and timestamp
  autoFixAttempted,
  resetTimers,          \* due times of the pending flag-reset setTimeouts
  dialogs,              \* open recovery dialogs: the error type of each
  fixes,                \* attemptAutoFix calls: slot -> error type, position
                        \* ("idle" when free), callbacks invoked so far
  \* ServiceOrchestrator
  lastAutoRedetectTime,
  runs,                 \* detectPort runs: origin, phase ("detecting", or
                        \* "warning" while its retry dialog is open), the
                        \* attemptAutoFix slot awaiting it (0 when none),
                        \* how PortDetectionService.detectPort settled
                        \* ("pending", "null", "rejected")
  startTimers,          \* pending setTimeout(startPolling, 2000) callbacks
  lastAutoFix,          \* when attemptAutoFix was last entered, 0 when never
  returned,             \* what the detectPort call that ended in the step
                        \* returned to its caller, None when none ended
  fallbackRequests,     \* plaintext fallback requests sent since the last
                        \* setConnectionInfo (followed in the "fallback"
                        \* scope, 0 elsewhere)
  \* CommandRegistry
  lastQuickRefreshTime

qsVars == <<port, httpPort, csrfToken, allowHttpFallback, apiMethod,
            pollingInterval, isFirstAttempt, consecutiveErrors, retryCount,
            isRetrying, isPollingTransition, httpFallbackCount, disposed>>
loopVars == <<intervalTimers, retryTimers, inflight, microtask>>
stepVars == <<op, started, emitted, caught, sent, halted, stopCall,
              returned, fallbackRequests>>
recoveryVars == <<now, errorHistory, autoFixAttempted, resetTimers, dialogs,
                  fixes, lastAutoRedetectTime, runs, startTimers, lastAutoFix>>
commandVars == <<lastQuickRefreshTime>>
engineVars == <<qsVars, loopVars, stepVars, recoveryVars, commandVars, scope>>

VARIABLES
  \* EventBus fields
  busDisposed,
  subscriptions,        \* the Sets of `handlers` in insertion order: id,
                        \* event type, once, what the handler does
                        \* ("returns", "throws", or "async": it returns a
                        \* promise that settles later)
  errorHandlers,        \* the global error handlers: id, whether it throws
  \* event loop of the bus
  asyncEmits,           \* emitAsync calls awaiting Promise.all: event type,
                        \* subscriptions whose promise is pending, toRemove
  promises,             \* promises returned to emit(), pending: their
                        \* subscription and event type
  \* what the last bus step did
  busOp,                \* the call or callback, its event type (for a
                        \* dispose() that of the subscription deleted),
                        \* whether it threw
  invoked,              \* handlers it invoked, in order, with the payload
  reports,              \* calls of global error handlers: the handler, the
                        \* subscription whose error it received
  \* history
  created,              \* on()/once() calls that returned a subscription
  unsubscribed,         \* subscriptions whose dispose() has returned
  fired                 \* invocations of each once() subscription so far

busVars == <<busDisposed, subscriptions, errorHandlers, asyncEmits, promises,
             busOp, invoked, reports, created, unsubscribed, fired>>

VARIABLES
  \* Container fields
  services,             \* the Map in insertion order: identifier, factory
                        \* (the identifiers it resolves, then what it does:
                        \* "object", "undefined" or "throws"), lifecycle,
                        \* instance (0 when undefined); with the history of
                        \* the registration: the invocations of its
                        \* factory, the values its resolves returned
  resolving,
  containerDisposed,
  \* what the last container step did
  containerOp,          \* the call, its identifier, how it ended
  \* history
  registrations,        \* register calls that stored a registration
  objects,              \* objects created by factories so far
  singletonsCreated,    \* the objects stored as the instance of a Singleton
                        \* registration so far, with the identifier
  disposals             \* the objects whose dispose() was called, in order

containerVars == <<services, resolving, containerDisposed, containerOp,
                   registrations, objects, singletonsCreated, disposals>>
vars == <<engineVars, busVars, containerVars>>

\* ------------------------------------------------- the state as a record
\* Operators below transform this record the way the statements of the
\* source transform the fields; an action commits the final record.
Current ==
  [port |-> port, httpPort |-> httpPort, csrfToken |-> csrfToken,
   allowHttpFallback |-> allowHttpFallback, apiMethod |-> apiMethod,
   pollingInterval |-> pollingInterval, isFirstAttempt |-> isFirstAttempt,
   consecutiveErrors |-> consecutiveErrors, retryCount |-> retryCount,
   isRetrying |-> isRetrying, isPollingTransition |-> isPollingTransition,
   httpFallbackCount |-> httpFallbackCount, disposed |-> disposed,
   intervalTimers |-> intervalTimers, retryTimers |-> retryTimers,
   inflight |-> inflight, microtask |-> microtask,
   op |-> op, started |-> started, emitted |-> emitted, caught |-> caught,
   sent |-> sent, halted |-> halted, stopCall |-> stopCall,
   now |-> now, errorHistory |-> errorHistory,
   autoFixAttempted |-> autoFixAttempted, resetTimers |-> resetTimers,
   dialogs |-> dialogs, fixes |-> fixes,
   lastAutoRedetectTime |-> lastAutoRedetectTime, runs |-> runs,
   startTimers |-> startTimers, lastAutoFix |-> lastAutoFix,
   returned |-> returned, fallbackRequests |-> fallbackRequests,
   lastQuickRefreshTime |-> lastQuickRefreshTime]

\* the bounds on the recovery state: a step beyond them is not taken
WithinBounds(m) ==
  /\ scope = "history" \/ Len(m.errorHistory) <= MaxHistory
  /\ Len(m.dialogs) <= (IF scope = "dialogs" THEN MaxPendingDialogs
                                              ELSE MaxDialogs)
  /\ Len(m.runs) <= MaxRuns
  /\ Len(m.resetTimers) <= MaxResetTimers
  /\ m.startTimers <= 1
  /\ m.fallbackRequests <= MaxFallbackRequests

Commit(m) ==
  /\ WithinBounds(m)
  /\ port' = m.port /\ httpPort' = m.httpPort /\ csrfToken' = m.csrfToken
  /\ allowHttpFallback' = m.allowHttpFallback /\ apiMethod' = m.apiMethod
  /\ pollingInterval' = m.pollingInterval
  /\ isFirstAttempt' = m.isFirstAttempt
  /\ consecutiveErrors' = m.consecutiveErrors /\ retryCount' = m.retryCount
  /\ isRetrying' = m.isRetrying
  /\ isPollingTransition' = m.isPollingTransition
  /\ httpFallbackCount' = m.httpFallbackCount /\ disposed' = m.disposed
  /\ intervalTimers' = m.intervalTimers /\ retryTimers' = m.retryTimers
  /\ inflight' = m.inflight /\ microtask' = m.microtask
  /\ op' = m.op /\ started' = m.started /\ emitted' = m.emitted
  /\ caught' = m.caught /\ sent' = m.sent /\ halted' = m.halted
  /\ stopCall' = m.stopCall
  /\ now' = m.now /\ errorHistory' = m.errorHistory
  /\ autoFixAttempted' = m.autoFixAttempted
  /\ resetTimers' = m.resetTimers /\ dialogs' = m.dialogs
  /\ fixes' = m.fixes
  /\ lastAutoRedetectTime' = m.lastAutoRedetectTime
  /\ runs' = m.runs /\ startTimers' = m.startTimers
  /\ lastAutoFix' = m.lastAutoFix
  /\ fallbackRequests' = m.fallbackRequests
  /\ returned' = m.returned
  /\ lastQuickRefreshTime' = m.lastQuickRefreshTime
  /\ UNCHANGED <<busVars, containerVars>>
  /\ scope' = scope

Op(name, kind, result) == [name |-> name, kind |-> kind, result |-> result]
NoMicrotask == [kind |-> None, intervalMs |-> 0]
IdleFix == [type |-> None, pc |-> "idle", calls |-> <<>>]

\* the record at the start of a step: nothing observed yet
Step(name, kind) ==
  [Current EXCEPT !.op = Op(name, kind, None), !.started = None,
                  !.emitted = <<>>, !.caught = NoError, !.sent = {},
                  !.returned = None]

Outcome(m, result) == [m EXCEPT !.op.result = result]

Event(type) == [type |-> type, attempt |-> 0, maxAttempts |-> 0]
\* mutant: the payload is built before retryCount is incremented
RetryEventBeforeIncrement(attempt) ==
  [type |-> QUOTA_RETRY, attempt |-> attempt - 1, maxAttempts |-> MAX_RETRY_COUNT]

RetryEvent(attempt) ==
  [type |-> QUOTA_RETRY, attempt |-> attempt, maxAttempts |-> MAX_RETRY_COUNT]

\* ------------------------------------------------- ErrorRecoveryService
\* mutant: the newest record is dropped from a full history
RecordErrorDropsNewest(m, error) ==
  LET h == Append(m.errorHistory,
                  [type |-> CategorizeError(error), timestamp |-> m.now])
  IN [m EXCEPT !.errorHistory =
                 IF Len(h) > MAX_HISTORY_SIZE THEN SubSeq(h, 1, Len(h) - 1)
                                              ELSE h]

\* recordError: push, then shift once the history exceeds its size
RecordError(m, error) ==
  LET h == Append(m.errorHistory,
                  [type |-> CategorizeError(error), timestamp |-> m.now])
  IN [m EXCEPT !.errorHistory =
                 IF Len(h) > MAX_HISTORY_SIZE THEN Tail(h) ELSE h]

\* now - e.timestamp < timeWindowMs
IsRecent(m, e, window) == m.now - e.timestamp < window

GetRecentErrors(m, window) ==
  SelectSeq(m.errorHistory, LAMBDA e : IsRecent(m, e, window))

\* showErrorRecoveryDialog up to `await showErrorMessage`
ShowErrorRecoveryDialog(m, error) ==
  [m EXCEPT !.dialogs = Append(@, CategorizeError(error))]

\* mutant: two recent errors are enough
IsErrorPatternOfTwo(count) == count >= 2

\* recentErrors.length >= 3
IsErrorPattern(count) == count >= 3

HandleError(m, error) ==
  LET m1 == RecordError(m, error)
  IN IF /\ IsErrorPattern(Len(GetRecentErrors(m1, ERROR_PATTERN_WINDOW)))
        /\ ~m1.autoFixAttempted
       THEN ShowErrorRecoveryDialog(m1, error)
       ELSE m1

\* reset()
Reset(m) == [m EXCEPT !.errorHistory = <<>>, !.autoFixAttempted = FALSE]

\* ---------------------------------------------------- ServiceOrchestrator
\* emit without a subscriber among the modelled services
Publish(m, event) == [m EXCEPT !.emitted = Append(@, event)]

\* detectPort up to `await portDetectionService.detectPort()`: the
\* orchestrator and the detection service each announce the start
DetectPort(m, origin, slot) ==
  [Publish(Publish(m, Event(PORT_DETECTION_START)), Event(PORT_DETECTION_START))
     EXCEPT !.runs = Append(@, [origin |-> origin, phase |-> "detecting",
                                slot |-> slot, detected |-> "pending"])]

\* mutant: the cooldown is over at exactly three minutes
CooldownOverInclusive(m) ==
  m.now - m.lastAutoRedetectTime >= autoRedetectCooldown

\* now - this.lastAutoRedetectTime > this.autoRedetectCooldown
CooldownOver(m) == m.now - m.lastAutoRedetectTime > autoRedetectCooldown

OnQuotaFetchError(m) ==
  IF m.consecutiveErrors >= 3 /\ CooldownOver(m)
    THEN DetectPort([m EXCEPT !.lastAutoRedetectTime = m.now], "automatic", 0)
    ELSE m

\* the subscribers of the bus, in subscription order; the payload of an
\* error event is the error caught
Deliver(m, event) ==
  IF scope # "rediscovery" THEN m
  ELSE IF event.type = QUOTA_FETCH_ERROR
    THEN OnQuotaFetchError(HandleError(m, m.caught))
  ELSE IF event.type = PORT_DETECTION_FAILED THEN HandleError(m, m.caught)
  ELSE IF event.type = QUOTA_FETCH_SUCCESS THEN Reset(m)
  ELSE m

\* eventBus?.emit(type, payload): the handlers run before emit returns
Emit(m, event) == Deliver(Publish(m, event), event)

\* ---------------------------------------------------------- attemptAutoFix
\* await context.onRedetectPort(): wired to ServiceOrchestrator.detectPort
InvokeRedetect(m, slot) ==
  LET m1 == [m EXCEPT !.fixes[slot].pc = "redetect",
                      !.fixes[slot].calls = Append(@, "redetect")]
  IN IF scope = "rediscovery" THEN DetectPort(m1, "autofix", slot) ELSE m1

\* await context.onToggleApiMethod()
InvokeToggle(m, slot) ==
  [m EXCEPT !.fixes[slot].pc = "toggle",
            !.fixes[slot].calls = Append(@, "toggle")]

\* mutant: the toggle step is skipped
TogglesFirstNever(type) == FALSE

\* case ErrorType.PROTOCOL_ERROR
TogglesFirst(type) == type = PROTOCOL_ERROR

\* the cases that wait two seconds after the rediscovery
SettlesAfterRedetect(type) ==
  type \in {CONNECTION_REFUSED, PORT_DETECTION, AUTH_ERROR}

AttemptAutoFix(m, slot, type) ==
  LET m1 == [m EXCEPT !.autoFixAttempted = TRUE, !.lastAutoFix = m.now,
                      !.fixes[slot] = [type |-> type, pc |-> "start",
                                       calls |-> <<>>]]
  IN IF TogglesFirst(type) THEN InvokeToggle(m1, slot)
                           ELSE InvokeRedetect(m1, slot)

\* the end of the try block: the flag is reset ten minutes later
FinishAutoFix(m, slot) ==
  [m EXCEPT !.fixes[slot] = IdleFix,
            !.resetTimers = Append(@, m.now + AutoFixResetMs),
            !.op.result = "completed"]

\* the catch block: nothing is scheduled
AutoFixFailed(m, slot) ==
  [m EXCEPT !.fixes[slot] = IdleFix, !.op.result = "failed"]

\* attemptAutoFix after `await context.onRedetectPort()`
AfterRedetect(m, slot) ==
  IF SettlesAfterRedetect(m.fixes[slot].type)
    THEN [m EXCEPT !.fixes[slot].pc = "delay2000"]
    ELSE FinishAutoFix(m, slot)

\* ------------------------------------------------------------ event loop
LiveTimers(m) == {id \in DOMAIN m.intervalTimers : m.intervalTimers[id] # 0}

\* this.pollingInterval = setInterval(() => this.fetchQuota(), ms)
SetInterval(m, ms) ==
  LET free == DOMAIN m.intervalTimers \ LiveTimers(m)
      id == CHOOSE i \in free : \A j \in free : i <= j
  IN [m EXCEPT !.intervalTimers[id] = ms, !.pollingInterval = id]

\* mutant: the handle is dropped without clearInterval
StopPollingKeepsTimer(m) == [m EXCEPT !.pollingInterval = 0]

\* stopPolling(): clearInterval on the handle held, if any
StopPolling(m) ==
  IF m.pollingInterval # 0
    THEN [m EXCEPT !.intervalTimers[m.pollingInterval] = 0,
                   !.pollingInterval = 0]
    ELSE m

\* ------------------------------------------------------------ makeRequest
\* mutant: the check `csrfToken !== undefined`
HasTokenDefined(token) == token # None

\* if (csrfToken): a JavaScript string is truthy unless undefined or empty
HasToken(token) == token # None /\ token # ""

\* what goes onto the wire: client.request(options) with the headers
WireRequest(req) ==
  [useHttps |-> req.useHttps, port |-> req.targetPort,
   csrfHeader |-> req.csrfToken]

Transmit(m, req) ==
  [m EXCEPT !.inflight = @ (+) SetToBag({req}),
            !.sent = @ \cup {WireRequest(req)}]

\* makeRequest past the token check: doRequest(true, port); the parameters
\* are captured for the catch block that decides on the fallback
MakeRequest(m, kind, ms) ==
  Transmit(m, [kind |-> kind, intervalMs |-> ms, useHttps |-> TRUE,
               targetPort |-> m.port, httpPort |-> m.httpPort,
               csrfToken |-> m.csrfToken,
               allowHttpFallback |-> m.allowHttpFallback,
               apiMethod |-> m.apiMethod])

\* the promise of doRequest: settled by the response or the socket
DoRequestResult(o) ==
  CASE o.kind = "error" -> [ok |-> FALSE, error |-> o.error, body |-> o]
    [] o.kind = "timeout" -> [ok |-> FALSE, error |-> TimeoutError, body |-> o]
    [] o.statusCode # 200 -> [ok |-> FALSE, error |-> HttpStatusError, body |-> o]
    [] ~o.json -> [ok |-> FALSE, error |-> ParseResponseError, body |-> o]
    [] OTHER -> [ok |-> TRUE, error |-> MissingTokenError, body |-> o]

IsProtocolMismatch(error) ==
  \/ error.code = "EPROTO"
  \/ IncludesWrongVersionNumber(ToLowerCase(error.message))

\* mutant: any failure of the TLS attempt degrades to HTTP
ShouldRetryHttpOnAnyError(allow, fallbackPort, error) ==
  allow /\ fallbackPort # NoPort

ShouldRetryHttp(allow, fallbackPort, error) ==
  allow /\ fallbackPort # NoPort /\ IsProtocolMismatch(error)

\* mutant: the fallback goes to the HTTP port over TLS again
HttpFallbackRequestOverTls(req) == [req EXCEPT !.targetPort = req.httpPort]

\* return await doRequest(false, httpPort)
HttpFallbackRequest(req) ==
  [req EXCEPT !.useHttps = FALSE, !.targetPort = req.httpPort]

\* ----------------------------------------------------------- doFetchQuota
OkValues == {"0", "OK", "Ok", "ok", "success", "SUCCESS"}
\* mutant: every application code passes for a success value
GetInvalidCodeInfoNever(body) == FALSE

\* getInvalidCodeInfo(response) # null
GetInvalidCodeInfo(body) == body.code # None /\ body.code \notin OkValues

\* parseGetUserStatusResponse throws without userStatus;
\* parseCommandModelConfigsResponse takes any body
ParseThrows(method, body) == method = GET_USER_STATUS /\ ~body.userStatus

\* mutant: one retry more than the budget
CanRetryOneMore(count) == count <= MAX_RETRY_COUNT

\* mutant: the retry budget is one short
CanRetryOneShort(count) == count + 1 < MAX_RETRY_COUNT

\* if (this.retryCount < this.MAX_RETRY_COUNT)
CanRetry(count) == count < MAX_RETRY_COUNT

\* the catch block of doFetchQuota
CatchFetchError(m, error) ==
  LET m1 == [m EXCEPT !.consecutiveErrors = @ + 1, !.caught = error,
                      !.op.result = "failed"]
  IN IF CanRetry(m1.retryCount)
       THEN Emit([m1 EXCEPT !.retryCount = @ + 1, !.isRetrying = TRUE,
                            !.retryTimers = Append(@, RETRY_DELAY_MS)],
                 RetryEvent(m1.retryCount + 1))
       ELSE Emit([StopPolling(m1) EXCEPT !.halted = "exhausted"],
                 Event(QUOTA_FETCH_ERROR))

\* the success path of doFetchQuota
FetchSucceeded(m) ==
  Emit(Emit([m EXCEPT !.consecutiveErrors = 0, !.retryCount = 0,
                      !.isFirstAttempt = FALSE, !.op.result = "success"],
            Event(QUOTA_FETCH_SUCCESS)),
       Event(QUOTA_UPDATE))

\* doFetchQuota after the await on the request
FetchResult(m, method, r) ==
  IF ~r.ok THEN CatchFetchError(m, r.error)
  ELSE IF GetInvalidCodeInfo(r.body) THEN Outcome(m, "skipped")
  ELSE IF ParseThrows(method, r.body)
    THEN CatchFetchError(m, MissingUserStatusError)
  ELSE FetchSucceeded(m)

\* the caller resumes after `await this.fetchQuota()` in a microtask
AfterFetch(m, kind, ms) ==
  IF kind \in {"startPolling", "retryFromError"}
    THEN [m EXCEPT !.microtask = [kind |-> kind, intervalMs |-> ms]]
    ELSE m

\* doFetchQuota up to the await; without a token makeRequest rejects at
\* once and the catch block runs before anything else can
DoFetchQuota(m, kind, ms) ==
  LET m1 == IF m.isFirstAttempt THEN Emit(m, Event(QUOTA_FETCH_START)) ELSE m
      m2 == [m1 EXCEPT !.started = "doFetchQuota"]
  IN IF HasToken(m2.csrfToken)
       THEN MakeRequest(m2, kind, ms)
       ELSE AfterFetch(CatchFetchError(m2, MissingTokenError), kind, ms)

FetchQuota(m, kind, ms) ==
  IF m.isRetrying
    THEN AfterFetch(Outcome(m, "skipped"), kind, ms)
    ELSE DoFetchQuota(m, kind, ms)

\* fetchQuotaData(): one request, no bookkeeping; errors are logged
FetchQuotaDataResult(m, method, r) ==
  IF ~r.ok THEN [m EXCEPT !.caught = r.error, !.op.result = "failed"]
  ELSE IF GetInvalidCodeInfo(r.body) THEN Outcome(m, "skipped")
  ELSE IF ParseThrows(method, r.body)
    THEN [m EXCEPT !.caught = MissingUserStatusError,
                   !.op.result = "failed"]
  ELSE Outcome(m, "success")

\* ----------------------------------------------------------------- guards
\* a macrotask starts only when the microtask queue is empty
Idle == microtask = NoMicrotask
\* the extension calls the service until it disposes of it
Caller == Idle /\ ~disposed
Pending == BagCardinality(inflight) + Len(retryTimers)
\* the scopes with one fetch at a time
OneFetch == scope \in {"transport", "rediscovery", "fallback"}
PendingLimit == IF OneFetch THEN MaxTransportPending ELSE MaxPending
TimerLimit == IF OneFetch THEN MaxTransportTimers ELSE MaxTimers
Intervals == IF OneFetch THEN {60000} ELSE IntervalArgs
ErrorLimit == IF OneFetch THEN MaxTransportErrors ELSE MaxErrors
Room == Pending < PendingLimit /\ consecutiveErrors < ErrorLimit
Armers == {r \in BagToSet(inflight) : r.kind \in {"startPolling", "retryFromError"}}
ArmRoom ==
  LET held == IF pollingInterval # 0 THEN {pollingInterval} ELSE {}
      armers == BagCardinality(inflight) -
                BagCardinality([r \in BagToSet(inflight) \ Armers |-> inflight[r]])
  IN Cardinality(LiveTimers(Current) \ held) + armers < TimerLimit

\* ------------------------------------------------------------------- Init
InitService ==
  /\ port = 0 /\ httpPort = NoPort /\ csrfToken = None
  /\ allowHttpFallback = FALSE /\ apiMethod = GET_USER_STATUS
  /\ pollingInterval = 0 /\ isFirstAttempt = TRUE
  /\ consecutiveErrors = 0 /\ retryCount = 0 /\ isRetrying = FALSE
  /\ isPollingTransition = FALSE /\ httpFallbackCount = 0
  /\ disposed = FALSE
  /\ intervalTimers = [id \in 1..MaxTimers |-> 0]
  /\ retryTimers = <<>>
  /\ inflight = EmptyBag
  /\ microtask = NoMicrotask
  /\ op = Op("constructor", None, None)
  /\ started = None /\ emitted = <<>> /\ caught = NoError /\ sent = {}
  /\ halted = "no" /\ stopCall = "never"
  /\ now = StartTime
  /\ errorHistory = <<>> /\ autoFixAttempted = FALSE
  /\ resetTimers = <<>> /\ dialogs = <<>>
  /\ fixes = [slot \in 1..MaxFixes |-> IdleFix]
  /\ lastAutoRedetectTime = 0
  /\ runs = <<>> /\ startTimers = 0 /\ lastAutoFix = 0
  /\ lastQuickRefreshTime = 0
  /\ fallbackRequests = 0 /\ returned = None
  /\ busDisposed = FALSE /\ subscriptions = <<>> /\ errorHandlers = <<>>
  /\ asyncEmits = <<>> /\ promises = <<>>
  /\ busOp = [name |-> "constructor", event |-> None, threw |-> FALSE]
  /\ invoked = <<>> /\ reports = <<>>
  /\ created = 0 /\ unsubscribed = {}
  /\ fired = [id \in 1..MaxSubscriptions |-> 0]
  /\ services = <<>> /\ resolving = {} /\ containerDisposed = FALSE
  /\ containerOp = [name |-> "constructor", id |-> None,
                    completion |-> [threw |-> FALSE, value |-> 0,
                                    error |-> [code |-> None,
                                               message |-> None]]]
  /\ registrations = 0 /\ objects = 0
  /\ singletonsCreated = {} /\ disposals = <<>>

Init == InitService /\ scope = "polling"
InitTransport == InitService /\ scope = "transport"
InitTimers == InitService /\ scope = "timers"

\* ---------------------------------------------------------------- actions
\* setConnectionInfo(port, httpPort, csrfToken)
ConnectionInfo(m, p, hp, token) ==
  [m EXCEPT !.port = p, !.httpPort = IF hp = NoPort THEN p ELSE hp,
            !.csrfToken = token, !.consecutiveErrors = 0,
            !.retryCount = 0, !.httpFallbackCount = 0,
            !.fallbackRequests = 0]

SetConnectionInfo(p, hp, token) ==
  /\ Caller
  /\ Commit(ConnectionInfo(Step("setConnectionInfo", None), p, hp, token))

SetAllowHttpFallback(allow) ==
  /\ Caller /\ allow # allowHttpFallback
  /\ Commit([Step("setAllowHttpFallback", None) EXCEPT
               !.allowHttpFallback = allow])

SetApiMethod(method) ==
  /\ Caller /\ method # apiMethod
  /\ Commit([Step("setApiMethod", None) EXCEPT !.apiMethod = method])

\* mutant: startPolling without its single-flight guard
TransitionNeverInFlight(m) == FALSE

\* if (this.isPollingTransition) return
TransitionInFlight(m) == m.isPollingTransition

\* startPolling(ms) entered in the state m0
StartPollingFrom(m0, ms) ==
  LET m == [m0 EXCEPT !.halted = "no",
                      !.stopCall = IF @ = "never" THEN @ ELSE "resumed"]
  IN IF TransitionInFlight(m)
       THEN Commit(Outcome(m, "dropped"))
       ELSE /\ Room /\ ArmRoom
            /\ Commit(FetchQuota(
                 StopPolling([m EXCEPT !.isPollingTransition = TRUE]),
                 "startPolling", ms))

StartPolling(ms) ==
  /\ Caller
  /\ StartPollingFrom(Step("startPolling", "startPolling"), ms)

StopPollingCall ==
  /\ Caller
  /\ Commit(StopPolling([Step("stopPolling", None) EXCEPT
                            !.stopCall = "stopped"]))

\* retryFromError(ms) up to the await, entered in the state m0
RetryFromErrorFrom(m0, ms) ==
  LET m == [m0 EXCEPT
              !.halted = IF @ \in {"exhausted", "retryFailed"}
                           THEN "recovering" ELSE "no",
              !.stopCall = IF @ = "never" THEN @ ELSE "resumed",
              !.consecutiveErrors = 0, !.retryCount = 0,
              !.isRetrying = FALSE, !.isFirstAttempt = TRUE]
  IN FetchQuota(StopPolling(m), "retryFromError", ms)

RetryFromError(ms) ==
  /\ Caller
  /\ Pending < PendingLimit /\ ArmRoom
  /\ Commit(RetryFromErrorFrom(Step("retryFromError", "retryFromError"), ms))

QuickRefresh ==
  /\ Caller /\ Room
  /\ Commit(DoFetchQuota(Step("quickRefresh", "quickRefresh"), "quickRefresh", 0))

\* ------------------------------------------------ the refresh commands
\* eventBus.emit(UI_REFRESH_REQUEST): the handler ServiceOrchestrator
\* subscribed runs onRefreshRequest, which calls retryFromError with the
\* configured interval and does not await it
EmitRefreshRequest(m) == RetryFromErrorFrom(m, DefaultPollingInterval)

\* mutant: the cooldown is never in force
InCooldownNever(m) == FALSE

\* if (now - this.lastQuickRefreshTime < this.quickRefreshCooldown)
InCooldown(m) == m.now - m.lastQuickRefreshTime < QuickRefreshCooldown

\* the handler of the command quickRefreshQuota up to its await
QuickRefreshQuotaHandler(m) ==
  IF InCooldown(m)
    THEN Outcome(m, "cooldown")
    ELSE LET m1 == [m EXCEPT !.lastQuickRefreshTime = m.now]
             m2 == EmitRefreshRequest(m1)
         IN Outcome(DoFetchQuota(m2, "quickRefresh", 0), "accepted")

\* room for the requests and the interval timers a command brings
CommandRoom(fetches, arming) ==
  LET held == IF pollingInterval # 0 THEN {pollingInterval} ELSE {}
      armers == BagCardinality(inflight) -
                BagCardinality([r \in BagToSet(inflight) \ Armers |-> inflight[r]])
  IN /\ Pending + fetches <= MaxCommandPending
     /\ Cardinality(LiveTimers(Current) \ held) + armers + arming <= MaxTimers

\* the user runs the commands once an endpoint is connected
Connected == Caller /\ HasToken(csrfToken)

\* the user runs the command quickRefreshQuota
QuickRefreshQuotaCommand ==
  /\ Connected /\ CommandRoom(2, 1)
  /\ Commit(QuickRefreshQuotaHandler(Step("quickRefreshQuota", "command")))

\* the user picks `refresh` in the quick menu:
\* QuickMenuPresenter.handleAction emits the refresh request, then executes
\* the command quickRefreshQuota
QuickMenuRefresh ==
  /\ Connected /\ CommandRoom(3, 2)
  /\ Commit(QuickRefreshQuotaHandler(
              EmitRefreshRequest(Step("quickMenuRefresh", "command"))))

CommandTickMs == QuickRefreshCooldown \div 2
\* time passes between the steps of the event loop
CommandTick ==
  /\ Idle
  /\ now + CommandTickMs <= StartTime + MaxCommandSteps * CommandTickMs
  /\ Commit([Step("tick", None) EXCEPT !.now = @ + CommandTickMs])

FetchQuotaData ==
  /\ Caller /\ Pending < PendingLimit
  /\ LET m == [Step("fetchQuotaData", "fetchQuotaData") EXCEPT
                 !.started = "fetchQuotaData"]
     IN IF HasToken(m.csrfToken)
          THEN Commit(MakeRequest(m, "fetchQuotaData", 0))
          ELSE Commit([m EXCEPT !.caught = MissingTokenError,
                                !.op.result = "failed"])

\* the callback of the setInterval timer id
IntervalTick(id) ==
  /\ Idle
  /\ intervalTimers[id] # 0
  /\ isRetrying \/ Room
  /\ Commit(FetchQuota(Step("interval", "interval"), "interval", 0))

\* mutant: the retry callback leaves the flag set
ClearRetryingNever(m) == m

\* this.isRetrying = false
ClearRetrying(m) == [m EXCEPT !.isRetrying = FALSE]

\* the callback of the oldest pending retry setTimeout
RetryTimerFires ==
  /\ Idle
  /\ retryTimers # <<>>
  /\ Commit(FetchQuota(ClearRetrying([Step("retry", "retry") EXCEPT
                                        !.retryTimers = Tail(@)]),
                       "retry", 0))

\* the network settles the request req with outcome o
ResponseArrives(req, o) ==
  /\ Idle
  /\ LET m == [Step("response", req.kind) EXCEPT
                 !.inflight = @ (-) SetToBag({req})]
         r == DoRequestResult(o)
     IN IF /\ req.useHttps /\ ~r.ok
           /\ ShouldRetryHttp(req.allowHttpFallback, req.httpPort, r.error)
          THEN Commit([Transmit(m, HttpFallbackRequest(req))
                         EXCEPT !.caught = r.error, !.op.result = "fallback",
                                !.fallbackRequests =
                                  IF scope = "fallback" THEN @ + 1 ELSE @])
          ELSE IF req.kind = "fetchQuotaData"
            THEN Commit(FetchQuotaDataResult(m, req.apiMethod, r))
            ELSE Commit(AfterFetch(FetchResult(m, req.apiMethod, r),
                                   req.kind, req.intervalMs))

\* startPolling / retryFromError after `await this.fetchQuota()`
Continuation ==
  /\ microtask # NoMicrotask
  /\ LET m == [Step("continuation", microtask.kind) EXCEPT
                 !.microtask = NoMicrotask]
     IN IF microtask.kind = "startPolling"
          THEN Commit([SetInterval(m, microtask.intervalMs) EXCEPT
                         !.isPollingTransition = FALSE, !.op.result = "armed"])
          ELSE IF m.consecutiveErrors = 0
            THEN Commit([SetInterval(m, microtask.intervalMs) EXCEPT
                           !.halted = IF @ = "recovering" THEN "no" ELSE @,
                           !.op.result = "armed"])
            ELSE Commit([m EXCEPT !.halted = "retryFailed",
                                  !.op.result = "stopped"])

Dispose ==
  /\ Idle
  /\ LET m == Step("dispose", None)
     IN IF m.disposed
          THEN Commit(m)
          ELSE Commit(StopPolling([m EXCEPT !.disposed = TRUE]))

\* ------------------------------------------------------------- the clock
TickMs == IF scope = "recovery" THEN 5 * Minute ELSE 3 * Minute
Horizon ==
  StartTime + (IF scope = "recovery" THEN MaxRecoverySteps * TickMs
                                     ELSE MaxRediscoverySteps * TickMs)
\* The clock is read in whole steps: what takes seconds (a request, the
\* retry delay, a detection, the delays of attemptAutoFix, the startup
\* delay) ends within the step it began in.
Quiescent ==
  /\ inflight = EmptyBag /\ retryTimers = <<>> /\ startTimers = 0
  /\ \A i \in DOMAIN runs : runs[i].phase # "detecting"
  /\ \A slot \in DOMAIN fixes : fixes[slot].pc \notin {"delay1000", "delay2000"}
\* a timer that is due fires before the clock moves on
Tick ==
  /\ Idle /\ Quiescent
  /\ now + TickMs <= Horizon
  /\ \A i \in DOMAIN resetTimers : now < resetTimers[i]
  /\ Commit([Step("tick", None) EXCEPT !.now = @ + TickMs])

\* ------------------------------------------- ErrorRecoveryService actions
\* a client reports the errors of one fault at a time: errors of one type
\* until the history is reset
SameFault(error) ==
  \A i \in DOMAIN errorHistory : errorHistory[i].type = CategorizeError(error)

HandleErrorCall(error) ==
  /\ Idle
  /\ SameFault(error)
  /\ Commit(HandleError(Step("handleError", CategorizeError(error)), error))

ResetCall ==
  /\ Idle
  /\ errorHistory # <<>> \/ autoFixAttempted
  /\ Commit(Reset(Step("reset", None)))

\* the bus delivers an error event to the subscription made in
\* subscribeToEvents while no recovery context is set: recordError only
ErrorEvent(event, error) ==
  /\ Idle
  /\ SameFault(error)
  /\ Commit(RecordError(
       [Step("recordError", event) EXCEPT
          !.caught = error,
          !.op.result = IF Len(errorHistory) >= MAX_HISTORY_SIZE
                          THEN "shifted" ELSE "kept"],
       error))

Remove(seq, i) == SubSeq(seq, 1, i - 1) \o SubSeq(seq, i + 1, Len(seq))
FreeSlots == {slot \in DOMAIN fixes : fixes[slot].pc = "idle"}
RecoveryChoices == {"autoFix", "close"}

\* the user answers the recovery dialog i
DialogChoice(i, choice) ==
  /\ Idle
  /\ i \in DOMAIN dialogs
  /\ LET m == [Step("dialog", dialogs[i]) EXCEPT
                 !.dialogs = Remove(@, i), !.op.result = choice]
     IN IF choice = "autoFix"
          THEN /\ FreeSlots # {}
               /\ Commit(AttemptAutoFix(m, CHOOSE slot \in FreeSlots : TRUE,
                                        dialogs[i]))
          ELSE Commit(m)

\* configService.updateConfig settles: config.update resolves or rejects
ToggleSettles(slot, ok) ==
  /\ Idle
  /\ fixes[slot].pc = "toggle"
  /\ LET m == Step("autoFix", fixes[slot].type)
     IN IF ok THEN Commit([m EXCEPT !.fixes[slot].pc = "delay1000"])
              ELSE Commit(AutoFixFailed(m, slot))

\* the callback of a client settles
RedetectSettles(slot, ok) ==
  /\ Idle
  /\ fixes[slot].pc = "redetect"
  /\ LET m == Step("autoFix", fixes[slot].type)
     IN IF ok THEN Commit(AfterRedetect(m, slot))
              ELSE Commit(AutoFixFailed(m, slot))

\* this.delay(1000) / this.delay(2000) elapses
DelayElapses(slot) ==
  /\ Idle
  /\ fixes[slot].pc \in {"delay1000", "delay2000"}
  /\ LET m == Step("autoFix", fixes[slot].type)
     IN IF fixes[slot].pc = "delay1000"
          THEN Commit(InvokeRedetect(m, slot))
          ELSE Commit(FinishAutoFix(m, slot))

\* setTimeout(() => { this.autoFixAttempted = false }, 10 min)
ResetTimerFires ==
  /\ Idle
  /\ resetTimers # <<>> /\ Head(resetTimers) <= now
  /\ Commit([Step("resetTimer", None) EXCEPT
               !.resetTimers = Tail(@), !.autoFixAttempted = FALSE])

\* --------------------------------------------- ServiceOrchestrator actions
\* initialize(): the first detectPort
Initialize ==
  /\ op.name = "constructor"
  /\ Commit(DetectPort(Step("initialize", None), "initial", 0))

\* how a call ends: it returns a value or throws (an async one resolves or
\* rejects)
Returned(v) == [threw |-> FALSE, value |-> v, error |-> NoError]
Thrown(e) == [threw |-> TRUE, value |-> None, error |-> e]

\* processDetector.detectProcessInfo() finds no process or throws
DetectorFailures == {Returned("null"), Thrown(DetectorError)}

\* the fix that awaits the run resumes in a microtask, in its catch block
\* when the awaited call rejected
ResumeFix(m, slot, completion) ==
  IF slot = 0 THEN m
  ELSE IF completion.threw THEN AutoFixFailed(m, slot)
  ELSE AfterRedetect(m, slot)

DetectedPort == 51001
DetectedHttpPort == 51000
DetectedToken == "abcDEF123456"

\* mutant: the catch block of PortDetectionService.detectPort rethrows
ServiceCatchRethrows(m, error) == [m |-> m, completion |-> Thrown(error)]

\* PortDetectionService.detectPort, the catch block: the failure is
\* emitted under both names of the event and null is returned
ServiceCatch(m, error) ==
  [m |-> Emit(Emit([m EXCEPT !.caught = error], Event(PORT_DETECTION_FAILED)),
              Event(PORT_DETECTION_FAILED)),
   completion |-> Returned("null")]

\* PortDetectionService.detectPort after `await detectProcessInfo()`
ServiceDetectPort(m, detected) ==
  IF detected.threw THEN ServiceCatch(m, detected.error)
  ELSE IF detected.value = "null"
    THEN [m |-> Emit(Emit([m EXCEPT !.caught = NoProcessError],
                          Event(PORT_DETECTION_FAILED)),
                     Event(PORT_DETECTION_FAILED)),
          completion |-> Returned("null")]
  ELSE [m |-> Publish(Publish(m, Event(PORT_DETECTION_SUCCESS)),
                      Event(PORT_DETECTION_SUCCESS)),
        completion |-> Returned("result")]

\* onPortDetectionFailed(error) up to `await showWarningMessage`
OnPortDetectionFailed(m, i, error) ==
  [Emit([m EXCEPT !.caught = error], Event(PORT_DETECTION_FAILED))
     EXCEPT !.runs[i].phase = "warning"]

\* the detection of run i finds the process: onPortDetectionSuccess; a
\* detectPort that was retried from the warning dialog has already taken
\* its failure branch and returns false
DetectionSucceeds(i) ==
  /\ Caller
  /\ i \in DOMAIN runs /\ runs[i].phase = "detecting"
  /\ LET m0 == [Step("detection", runs[i].origin) EXCEPT
                  !.runs = Remove(@, i), !.op.result = "success",
                  !.returned = IF runs[i].origin = "retry" THEN "false"
                                                           ELSE "true"]
         m1 == ServiceDetectPort(m0, Returned("processInfo")).m
         m2 == ConnectionInfo(m1, DetectedPort, DetectedHttpPort, DetectedToken)
         m3 == Publish([m2 EXCEPT !.allowHttpFallback = FALSE,
                                  !.apiMethod = GET_USER_STATUS],
                       Event(PORT_DETECTION_SUCCESS))
     IN Commit(ResumeFix([m3 EXCEPT !.startTimers = @ + 1], runs[i].slot,
                         Returned(m0.returned)))

\* the detection of run i fails: PortDetectionService settles, detectPort
\* receives null (or the rejection, in its catch block) and
\* onPortDetectionFailed emits the failure again and asks whether to retry
DetectionFails(i, detected) ==
  /\ Idle
  /\ i \in DOMAIN runs /\ runs[i].phase = "detecting"
  /\ LET m0 == [Step("detection", runs[i].origin) EXCEPT !.op.result = "failed"]
         s == ServiceDetectPort(m0, detected)
         m1 == [s.m EXCEPT !.runs[i].detected =
                             IF s.completion.threw THEN "rejected"
                                                   ELSE s.completion.value]
         m2 == OnPortDetectionFailed(
                 m1, i, IF s.completion.threw THEN s.completion.error
                                              ELSE EmptyResultError)
     IN Commit([m2 EXCEPT !.caught = IF detected.threw THEN detected.error
                                                       ELSE @])

\* the user answers the retry dialog of run i: detectPort again, or
\* detectPort returns false
WarningChoice(i, retry) ==
  /\ Idle
  /\ i \in DOMAIN runs /\ runs[i].phase = "warning"
  /\ LET m == [Step("warning", runs[i].origin) EXCEPT
                 !.op.result = IF retry THEN "retry" ELSE "close"]
     IN IF retry
          THEN Commit(Publish(Publish(
                 [m EXCEPT !.runs[i].phase = "detecting",
                           !.runs[i].origin = "retry",
                           !.runs[i].detected = "pending"],
                 Event(PORT_DETECTION_START)), Event(PORT_DETECTION_START)))
          ELSE Commit(ResumeFix([m EXCEPT !.runs = Remove(@, i),
                                          !.returned = "false"],
                                runs[i].slot, Returned("false")))

\* setTimeout(() => quotaService.startPolling(config.pollingInterval), 2000)
StartupTimerFires ==
  /\ Caller
  /\ startTimers > 0
  /\ StartPollingFrom([Step("startPolling", "startPolling") EXCEPT
                         !.startTimers = @ - 1],
                      DefaultPollingInterval)

\* the calls, callbacks and completions of the polling engine
Engine ==
  \/ \E ms \in Intervals : StartPolling(ms)
  \/ StopPollingCall
  \/ \E ms \in Intervals : RetryFromError(ms)
  \/ QuickRefresh
  \/ FetchQuotaData
  \/ \E id \in DOMAIN intervalTimers : IntervalTick(id)
  \/ RetryTimerFires
  \/ Continuation
  \/ Dispose

Next ==
  \/ \E p \in PortArgs, token \in TokenArgs : SetConnectionInfo(p, 51000, token)
  \/ \E req \in BagToSet(inflight), o \in PollingOutcomes : ResponseArrives(req, o)
  \/ Engine

NextTransport ==
  \/ \E p \in PortArgs, hp \in HttpPortArgs, token \in TokenArgs :
       SetConnectionInfo(p, hp, token)
  \/ \E allow \in BOOLEAN : SetAllowHttpFallback(allow)
  \/ \E method \in {GET_USER_STATUS, COMMAND_MODEL_CONFIG} : SetApiMethod(method)
  \/ \E req \in BagToSet(inflight), o \in NetOutcomes : ResponseArrives(req, o)
  \/ Engine

InitCommands == InitService /\ scope = "commands"
NextCommands ==
  \/ \E p \in PortArgs : SetConnectionInfo(p, 51000, "abcDEF123456")
  \/ QuickRefreshQuotaCommand
  \/ QuickMenuRefresh
  \/ CommandTick
  \/ \E req \in BagToSet(inflight), o \in PollingOutcomes : ResponseArrives(req, o)
  \/ \E id \in DOMAIN intervalTimers : IntervalTick(id)
  \/ RetryTimerFires
  \/ Continuation
SpecCommands == InitCommands /\ [][NextCommands]_vars

\* every request meets a transport failure
TransportFailures == {o \in NetOutcomes : o.kind \in {"error", "timeout"}}
RequestFails ==
  \E req \in BagToSet(inflight), o \in TransportFailures : ResponseArrives(req, o)
TimerFires ==
  \/ \E id \in DOMAIN intervalTimers : IntervalTick(id)
  \/ RetryTimerFires

\* the connection is configured, startPolling is called once, and from then
\* on only timer callbacks and the completions of their fetches occur
NextTimers ==
  \/ /\ op.name = "constructor"
     /\ \E p \in PortArgs, token \in TokenArgs : SetConnectionInfo(p, 51000, token)
  \/ /\ op.name \in {"constructor", "setConnectionInfo"}
     /\ \E ms \in Intervals : StartPolling(ms)
  \/ TimerFires
  \/ RequestFails
  \/ Continuation

\* the connection is configured, startPolling is called once; then the
\* timers fire, the requests settle and the user may refresh
RequestSettles ==
  \E req \in BagToSet(inflight), o \in PollingOutcomes : ResponseArrives(req, o)
NextSuppression ==
  \/ /\ op.name = "constructor"
     /\ \E p \in PortArgs, token \in TokenArgs : SetConnectionInfo(p, 51000, token)
  \/ /\ op.name \in {"constructor", "setConnectionInfo"}
     /\ \E ms \in Intervals : StartPolling(ms)
  \/ QuickRefresh
  \/ TimerFires
  \/ RequestSettles
  \/ Continuation

\* the endpoint answers or is silent
RediscoveryOutcomes == {o \in PollingOutcomes : o.code # "PERMISSION_DENIED"}

\* the extension as activated: discovery, polling, both recovery circuits;
\* every error is of the unknown type, whose fix has no delay, and the
\* flag-reset timer is not due within the steps the clock advances
NextRediscovery ==
  \/ Initialize
  \/ \E i \in DOMAIN runs : DetectionSucceeds(i)
  \/ \E i \in DOMAIN runs, detected \in DetectorFailures :
       DetectionFails(i, detected)
  \/ \E i \in DOMAIN runs, retry \in BOOLEAN : WarningChoice(i, retry)
  \/ StartupTimerFires
  \/ \E id \in DOMAIN intervalTimers : IntervalTick(id)
  \/ RetryTimerFires
  \/ \E req \in BagToSet(inflight), o \in RediscoveryOutcomes :
       ResponseArrives(req, o)
  \/ Continuation
  \/ \E i \in DOMAIN dialogs, choice \in RecoveryChoices :
       DialogChoice(i, choice)
  \/ Tick

\* ErrorRecoveryService called by a client whose callbacks settle later
NextRecovery ==
  \/ \E error \in RecoveryErrors : HandleErrorCall(error)
  \/ ResetCall
  \/ \E i \in DOMAIN dialogs, choice \in RecoveryChoices :
       DialogChoice(i, choice)
  \/ \E slot \in DOMAIN fixes, ok \in BOOLEAN : ToggleSettles(slot, ok)
  \/ \E slot \in DOMAIN fixes, ok \in BOOLEAN : RedetectSettles(slot, ok)
  \/ \E slot \in DOMAIN fixes : DelayElapses(slot)
  \/ ResetTimerFires
  \/ Tick

\* the server speaks plain HTTP only: every TLS request dies of a protocol
\* error and every plaintext request is answered
ProtocolFailure ==
  [kind |-> "error", statusCode |-> 0, json |-> FALSE, code |-> None,
   userStatus |-> FALSE,
   error |-> [code |-> "EPROTO", message |-> "write EPROTO"]]
PlainHttpServer(req) ==
  IF req.useHttps THEN ProtocolFailure ELSE Response(200, TRUE, "OK", TRUE)

\* polling a server that speaks plain HTTP only, with the fallback enabled
\* or not; a rediscovery may apply the connection again at any time
NextFallback ==
  \/ \E p \in PortArgs, token \in TokenArgs : SetConnectionInfo(p, 51000, token)
  \/ \E allow \in BOOLEAN : SetAllowHttpFallback(allow)
  \/ \E ms \in Intervals : StartPolling(ms)
  \/ \E id \in DOMAIN intervalTimers : IntervalTick(id)
  \/ RetryTimerFires
  \/ \E req \in BagToSet(inflight) : ResponseArrives(req, PlainHttpServer(req))
  \/ Continuation

\* ---------------------------------------------------------------- EventBus
BusEvents == {QUOTA_UPDATE, QUOTA_FETCH_ERROR}
\* EventPayloads[E]: the payload an emitter of the type passes
PayloadOf(event) == IF event = QUOTA_UPDATE THEN "snapshot" ELSE "error"
Behaviours == {"returns", "throws", "async"}

\* this.handlers.get(eventType), in the iteration order of the Set
Subscribed(event) == SelectSeq(subscriptions, LAMBDA s : s.event = event)
\* getSubscriptionCount(eventType)
GetSubscriptionCount(event) == Len(Subscribed(event))
Range(seq) == {seq[i] : i \in DOMAIN seq}
Ids(subs) == {subs[i].id : i \in DOMAIN subs}

\* mutant: on() without ensureNotDisposed
EnsureNotDisposedNever(isDisposed) == FALSE

\* ensureNotDisposed(): whether it throws
EnsureNotDisposed(isDisposed) == isDisposed

BusStep(name, event, threw) == [name |-> name, event |-> event, threw |-> threw]

\* on(eventType, handler, {once}); once(eventType, handler) is on() with
\* once: true
On(event, once, behaviour) ==
  /\ created < MaxSubscriptions
  /\ IF EnsureNotDisposed(busDisposed)
       THEN /\ busOp' = BusStep(IF once THEN "once" ELSE "on", event, TRUE)
            /\ UNCHANGED <<subscriptions, created>>
       ELSE /\ busOp' = BusStep(IF once THEN "once" ELSE "on", event, FALSE)
            /\ created' = created + 1
            /\ subscriptions' =
                 Append(subscriptions,
                        [id |-> created + 1, event |-> event, once |-> once,
                         behaviour |-> behaviour])
  /\ invoked' = <<>> /\ reports' = <<>>
  /\ UNCHANGED <<busDisposed, errorHandlers, asyncEmits, promises,
                 unsubscribed, fired, engineVars, containerVars>>

\* mutant: dispose() of a subscription clears the Set of its event type
DeleteWholeSet(subs, id) ==
  LET gone == {subs[i].event : i \in {j \in DOMAIN subs : subs[j].id = id}}
  IN SelectSeq(subs, LAMBDA s : s.event \notin gone)

\* this.handlers.get(eventType)?.delete(subscription)
Delete(subs, id) == SelectSeq(subs, LAMBDA s : s.id # id)

\* dispose() of the Disposable that on() returned for subscription id
SubscriptionDispose(id) ==
  /\ id \in 1..created
  /\ busOp' = BusStep("subscriptionDispose",
                      IF id \in Ids(subscriptions)
                        THEN (CHOOSE s \in Range(subscriptions) : s.id = id).event
                        ELSE None,
                      FALSE)
  /\ subscriptions' = Delete(subscriptions, id)
  /\ unsubscribed' = unsubscribed \cup {id}
  /\ invoked' = <<>> /\ reports' = <<>>
  /\ UNCHANGED <<busDisposed, errorHandlers, asyncEmits, promises, created,
                 fired, engineVars, containerVars>>

\* onError(handler)
OnError(throws) ==
  /\ Len(errorHandlers) < MaxErrorHandlers
  /\ busOp' = BusStep("onError", None, FALSE)
  /\ errorHandlers' = Append(errorHandlers,
                             [id |-> Len(errorHandlers) + 1, throws |-> throws])
  /\ invoked' = <<>> /\ reports' = <<>>
  /\ UNCHANGED <<busDisposed, subscriptions, asyncEmits, promises, created,
                 unsubscribed, fired, engineVars, containerVars>>

\* handleError(error, eventType, name): every global error handler is
\* called, one that throws is caught
HandleBusError(sub) ==
  [i \in DOMAIN errorHandlers |-> [handler |-> errorHandlers[i].id, sub |-> sub]]

RECURSIVE HandleBusErrors(_)
HandleBusErrors(subs) ==
  IF subs = <<>> THEN <<>>
  ELSE HandleBusError(Head(subs)) \o HandleBusErrors(Tail(subs))

\* mutant: the loop without its try/catch ends at the first handler that
\* throws, and the error leaves emit
RECURSIVE InvokeAllUntilThrow(_, _)
InvokeAllUntilThrow(subs, payload) ==
  IF subs = <<>> THEN [invoked |-> <<>>, errors |-> <<>>, threw |-> FALSE]
  ELSE LET s == Head(subs)
           call == <<[sub |-> s.id, payload |-> payload]>>
           rest == InvokeAllUntilThrow(Tail(subs), payload)
       IN IF s.behaviour = "throws"
            THEN [invoked |-> call, errors |-> <<>>, threw |-> TRUE]
            ELSE [rest EXCEPT !.invoked = call \o @]

\* for (const subscription of subscriptions) { try { handler(payload) }
\* catch (error) { handleError(...) } }: the handlers called and the
\* subscriptions whose handler threw, in order
RECURSIVE InvokeAll(_, _)
InvokeAll(subs, payload) ==
  IF subs = <<>> THEN [invoked |-> <<>>, errors |-> <<>>, threw |-> FALSE]
  ELSE LET s == Head(subs)
           call == <<[sub |-> s.id, payload |-> payload]>>
           rest == InvokeAll(Tail(subs), payload)
       IN [rest EXCEPT !.invoked = call \o @,
                       !.errors = (IF s.behaviour = "throws" THEN <<s.id>>
                                                             ELSE <<>>) \o @]

OnceIds(subs) == {subs[i].id : i \in {j \in DOMAIN subs : subs[j].once}}
AsyncSubs(subs) == SelectSeq(subs, LAMBDA s : s.behaviour = "async")
Fire(ids) ==
  [id \in DOMAIN fired |-> IF id \in ids THEN fired[id] + 1 ELSE fired[id]]
FiringsFollowed(ids) == \A id \in ids : fired[id] < MaxOnceFirings

\* a call on a disposed bus, or for a type without subscriptions
Ignored(name, event) ==
  /\ busOp' = BusStep(name, event, FALSE)
  /\ invoked' = <<>> /\ reports' = <<>>
  /\ UNCHANGED <<busDisposed, subscriptions, errorHandlers, asyncEmits,
                 promises, created, unsubscribed, fired, engineVars, containerVars>>

\* emit(eventType, payload)
EventBusEmit(event) ==
  LET subs == Subscribed(event)
      r == InvokeAll(subs, PayloadOf(event))
      pending == [i \in DOMAIN AsyncSubs(subs) |->
                    [sub |-> AsyncSubs(subs)[i].id, event |-> event]]
  IN IF busDisposed \/ subs = <<>> THEN Ignored("emit", event)
     ELSE /\ FiringsFollowed(OnceIds(subs))
          /\ Len(promises) + Len(pending) <= MaxPromises
          /\ busOp' = BusStep("emit", event, r.threw)
          /\ invoked' = r.invoked
          /\ reports' = HandleBusErrors(r.errors)
          /\ promises' = promises \o pending
          /\ subscriptions' = SelectSeq(subscriptions,
                                        LAMBDA s : s.id \notin OnceIds(subs))
          /\ fired' = Fire(OnceIds(subs))
          /\ UNCHANGED <<busDisposed, errorHandlers, asyncEmits, created,
                         unsubscribed, engineVars, containerVars>>

\* emitAsync(eventType, payload) up to `await Promise.all(promises)`: each
\* handler is called when its wrapper starts; toRemove is filled as the
\* wrappers finish and is read only after the await
EventBusEmitAsync(event) ==
  LET subs == Subscribed(event)
      r == InvokeAll(subs, PayloadOf(event))
  IN IF busDisposed \/ subs = <<>> THEN Ignored("emitAsync", event)
     ELSE /\ FiringsFollowed(OnceIds(subs))
          /\ Len(asyncEmits) < MaxAsyncEmits
          /\ busOp' = BusStep("emitAsync", event, r.threw)
          /\ invoked' = r.invoked
          /\ reports' = HandleBusErrors(r.errors)
          /\ asyncEmits' = Append(asyncEmits,
                                  [event |-> event,
                                   awaiting |-> Ids(AsyncSubs(subs)),
                                   toRemove |-> OnceIds(subs)])
          /\ fired' = Fire(OnceIds(subs))
          /\ UNCHANGED <<busDisposed, subscriptions, errorHandlers, promises,
                         created, unsubscribed, engineVars, containerVars>>

\* the promise an async handler returned to emit() settles:
\* result.catch(error => handleError(...))
PromiseSettles(k, ok) ==
  /\ k \in DOMAIN promises
  /\ busOp' = BusStep(IF ok THEN "resolved" ELSE "rejected",
                      promises[k].event, FALSE)
  /\ promises' = Remove(promises, k)
  /\ invoked' = <<>>
  /\ reports' = IF ok THEN <<>> ELSE HandleBusError(promises[k].sub)
  /\ UNCHANGED <<busDisposed, subscriptions, errorHandlers, asyncEmits,
                 created, unsubscribed, fired, engineVars, containerVars>>

\* the promise an async handler returned to the emitAsync call c settles:
\* the catch block of its wrapper reports a rejection
AwaitedSettles(c, sub, ok) ==
  /\ c \in DOMAIN asyncEmits /\ sub \in asyncEmits[c].awaiting
  /\ busOp' = BusStep(IF ok THEN "resolved" ELSE "rejected",
                      asyncEmits[c].event, FALSE)
  /\ asyncEmits' = [asyncEmits EXCEPT ![c].awaiting = @ \ {sub}]
  /\ invoked' = <<>>
  /\ reports' = IF ok THEN <<>> ELSE HandleBusError(sub)
  /\ UNCHANGED <<busDisposed, subscriptions, errorHandlers, promises,
                 created, unsubscribed, fired, engineVars, containerVars>>

\* emitAsync after `await Promise.all(promises)`: the once-subscriptions
\* are deleted from the Set the call iterated
EmitAsyncResumes(c) ==
  /\ c \in DOMAIN asyncEmits /\ asyncEmits[c].awaiting = {}
  /\ busOp' = BusStep("emitAsyncResumes", asyncEmits[c].event, FALSE)
  /\ asyncEmits' = Remove(asyncEmits, c)
  /\ subscriptions' = SelectSeq(subscriptions,
                                LAMBDA s : s.id \notin asyncEmits[c].toRemove)
  /\ invoked' = <<>> /\ reports' = <<>>
  /\ UNCHANGED <<busDisposed, errorHandlers, promises, created,
                 unsubscribed, fired, engineVars, containerVars>>

\* EventBus.dispose()
EventBusDispose ==
  /\ busOp' = BusStep("dispose", None, FALSE)
  /\ IF busDisposed
       THEN UNCHANGED <<busDisposed, subscriptions, errorHandlers>>
       ELSE /\ busDisposed' = TRUE
            /\ subscriptions' = <<>>
            /\ errorHandlers' = <<>>
  /\ invoked' = <<>> /\ reports' = <<>>
  /\ UNCHANGED <<asyncEmits, promises, created, unsubscribed, fired,
                 engineVars, containerVars>>

\* a client of the bus; handlers do not call the bus themselves
NextBus ==
  \/ \E event \in BusEvents, once \in BOOLEAN, behaviour \in Behaviours :
       On(event, once, behaviour)
  \/ \E id \in 1..MaxSubscriptions : SubscriptionDispose(id)
  \/ \E throws \in BOOLEAN : OnError(throws)
  \/ \E event \in BusEvents : EventBusEmit(event)
  \/ \E event \in BusEvents : EventBusEmitAsync(event)
  \/ \E k \in DOMAIN promises, ok \in BOOLEAN : PromiseSettles(k, ok)
  \/ \E c \in DOMAIN asyncEmits, ok \in BOOLEAN :
       \E sub \in asyncEmits[c].awaiting : AwaitedSettles(c, sub, ok)
  \/ \E c \in DOMAIN asyncEmits : EmitAsyncResumes(c)
  \/ EventBusDispose

InitBus == InitService /\ scope = "bus"
SpecBus == InitBus /\ [][NextBus]_vars

\* --------------------------------------------------------------- Container
\* enum Lifecycle
Singleton == "singleton"
Transient == "transient"
Identifiers == {"ServiceA", "ServiceB", "ServiceC"}
\* what a factory does with the container it is handed: it resolves its
\* dependencies in order, then creates an object, returns undefined or
\* throws; an error of a dependency leaves the factory
Factories ==
  [deps : {<<>>} \cup {<<id>> : id \in Identifiers},
   result : {"object", "undefined", "throws"}]
\* the services as they are wired: A may need B, B may need C, C may need A
Needs(id) ==
  CASE id = "ServiceA" -> "ServiceB"
    [] id = "ServiceB" -> "ServiceC"
    [] id = "ServiceC" -> "ServiceA"
\* and C may need B instead
FactoriesOf(id) ==
  {f \in Factories :
     \/ f.deps \in {<<>>, <<Needs(id)>>}
     \/ id = "ServiceC" /\ f.deps = <<"ServiceB">>}
\* what the objects of the services are: those of A have a dispose method
\* that throws, those of B one that returns, those of C have none
DisposeOf(id) ==
  CASE id = "ServiceA" -> "throws"
    [] id = "ServiceB" -> "returns"
    [] id = "ServiceC" -> "none"

ContainerDisposedError == [code |-> None, message |-> "container disposed"]
NotRegisteredError == [code |-> None, message |-> "service not registered"]
CircularError == [code |-> None, message |-> "circular dependency"]
FactoryError == [code |-> None, message |-> "factory failed"]

\* this.services.has(identifier)
Has(svcs, id) == \E i \in DOMAIN svcs : svcs[i].id = id
IndexOf(svcs, id) == CHOOSE i \in DOMAIN svcs : svcs[i].id = id

\* the fields of the container as one record
CurrentContainer ==
  [services |-> services, resolving |-> resolving,
   disposed |-> containerDisposed, objects |-> objects,
   singletonsCreated |-> singletonsCreated]

\* mutant: resolving.delete runs only when the factory returned
DeleteOnReturnOnly(c, id, completion) ==
  IF completion.threw THEN c ELSE [c EXCEPT !.resolving = @ \ {id}]

\* finally { this.resolving.delete(identifier) }
Finally(c, id, completion) == [c EXCEPT !.resolving = @ \ {id}]

\* mutant: the cached instance is never used
CachedNever(registration) == FALSE

\* lifecycle === Singleton && registration.instance !== undefined
Cached(registration) ==
  registration.lifecycle = Singleton /\ registration.instance # 0

RECURSIVE Resolve(_, _)
RECURSIVE ResolveAll(_, _)
RECURSIVE CallFactory(_, _)

\* the resolves a factory makes, up to the first one that throws
ResolveAll(c, deps) ==
  IF deps = <<>> THEN [c |-> c, completion |-> Returned(0)]
  ELSE LET r == Resolve(c, Head(deps))
       IN IF r.completion.threw THEN r ELSE ResolveAll(r.c, Tail(deps))

\* registration.factory(this)
CallFactory(c, factory) ==
  LET d == ResolveAll(c, factory.deps)
  IN IF d.completion.threw THEN d
     ELSE IF factory.result = "throws"
       THEN [c |-> d.c, completion |-> Thrown(FactoryError)]
     ELSE IF factory.result = "undefined"
       THEN [c |-> d.c, completion |-> Returned(0)]
     ELSE [c |-> [d.c EXCEPT !.objects = @ + 1],
           completion |-> Returned(d.c.objects + 1)]

\* resolve(identifier): the container afterwards and how the call ended
Resolve(c, id) ==
  IF c.disposed THEN [c |-> c, completion |-> Thrown(ContainerDisposedError)]
  ELSE IF ~Has(c.services, id)
    THEN [c |-> c, completion |-> Thrown(NotRegisteredError)]
  ELSE IF id \in c.resolving
    THEN [c |-> c, completion |-> Thrown(CircularError)]
  ELSE
    LET i == IndexOf(c.services, id)
        registration == c.services[i]
    IN IF Cached(registration)
         THEN [c |-> [c EXCEPT !.services[i].resolved =
                                 @ \cup {registration.instance}],
               completion |-> Returned(registration.instance)]
         ELSE
           LET c1 == [c EXCEPT !.resolving = @ \cup {id},
                               !.services[i].calls = @ + 1]
               f == CallFactory(c1, registration.factory)
               c2 == IF ~f.completion.threw
                       THEN [f.c EXCEPT
                               !.services[i].instance =
                                 IF registration.lifecycle = Singleton
                                   THEN f.completion.value ELSE @,
                               !.services[i].resolved =
                                 @ \cup {f.completion.value},
                               !.singletonsCreated =
                                 IF /\ registration.lifecycle = Singleton
                                    /\ f.completion.value # 0
                                   THEN @ \cup {[object |-> f.completion.value,
                                                 id |-> id]}
                                   ELSE @]
                       ELSE f.c
           IN [c |-> Finally(c2, id, f.completion),
               completion |-> f.completion]

ContainerStep(name, id, completion) ==
  [name |-> name, id |-> id, completion |-> completion]

\* register(identifier, factory, lifecycle): a registered identifier is
\* overwritten where it stands in the Map
Register(id, factory, lifecycle) ==
  /\ registrations < MaxRegistrations
  /\ IF containerDisposed
       THEN /\ containerOp' = ContainerStep("register", id,
                                            Thrown(ContainerDisposedError))
            /\ UNCHANGED <<services, registrations>>
       ELSE LET registration ==
                  [id |-> id, factory |-> factory, lifecycle |-> lifecycle,
                   instance |-> 0, calls |-> 0, resolved |-> {}]
            IN /\ containerOp' = ContainerStep("register", id, Returned(0))
               /\ registrations' = registrations + 1
               /\ services' =
                    IF Has(services, id)
                      THEN [services EXCEPT ![IndexOf(services, id)] =
                                              registration]
                      ELSE Append(services, registration)
  /\ UNCHANGED <<resolving, containerDisposed, objects, singletonsCreated,
                 disposals, engineVars, busVars>>

\* a client calls resolve(identifier)
ResolveCall(id) ==
  LET r == Resolve(CurrentContainer, id)
  IN /\ r.c.objects <= MaxInstances
     /\ \A i \in DOMAIN r.c.services :
          r.c.services[i].calls <= MaxFactoryCalls
     /\ containerOp' = ContainerStep("resolve", id, r.completion)
     /\ services' = r.c.services /\ resolving' = r.c.resolving
     /\ objects' = r.c.objects
     /\ singletonsCreated' = r.c.singletonsCreated
     /\ UNCHANGED <<containerDisposed, registrations, disposals, engineVars,
                    busVars>>

Reverse(seq) == [i \in DOMAIN seq |-> seq[Len(seq) + 1 - i]]

\* registration.instance !== undefined && isDisposable(registration.instance)
InstancesToDispose(svcs) ==
  LET holders == SelectSeq(svcs, LAMBDA r : r.instance # 0
                                           /\ DisposeOf(r.id) # "none")
  IN [i \in DOMAIN holders |-> holders[i].instance]

\* Container.dispose(): the instances are disposed in reverse order, an
\* error of one is caught and logged
ContainerDispose ==
  /\ containerOp' = ContainerStep("dispose", None, Returned(0))
  /\ IF containerDisposed
       THEN UNCHANGED <<containerDisposed, services, resolving, disposals>>
       ELSE /\ containerDisposed' = TRUE
            /\ disposals' = disposals \o Reverse(InstancesToDispose(services))
            /\ services' = <<>>
            /\ resolving' = {}
  /\ UNCHANGED <<registrations, objects, singletonsCreated, engineVars,
                 busVars>>

\* the client registers an identifier after the ones that others need of
\* it are registered: C, B, A
InOrder(id) ==
  \/ id = "ServiceC"
  \/ Needs(id) # id /\ Has(services, Needs(id))

RegisterCall(id, factory, lifecycle) ==
  InOrder(id) /\ Register(id, factory, lifecycle)

\* a client that registers factories, some of them anew, and resolves
\* identifiers
NextContainer ==
  \/ \E id \in Identifiers, lifecycle \in {Singleton, Transient} :
       \E factory \in FactoriesOf(id) : RegisterCall(id, factory, lifecycle)
  \/ \E id \in Identifiers : ResolveCall(id)
  \/ ContainerDispose

InitContainer == InitService /\ scope = "container"
SpecContainer == InitContainer /\ [][NextContainer]_vars

\* ErrorRecoveryService constructed with the bus, setRecoveryContext not
\* called: quota and detection errors arrive as events
NextHistory ==
  \/ ErrorEvent(QUOTA_FETCH_ERROR, TimeoutError)
  \/ ErrorEvent(PORT_DETECTION_FAILED, NoProcessError)
  \/ ResetCall
  \/ Tick

InitHistory == InitService /\ scope = "history"
SpecHistory == InitHistory /\ [][NextHistory]_vars
InitFallback == InitService /\ scope = "fallback"
SpecFallback == InitFallback /\ [][NextFallback]_vars
InitRediscovery == InitService /\ scope = "rediscovery"
InitRecovery == InitService /\ scope = "recovery"
\* errors arrive while a dialog is open: the clock stands still
DialogErrors ==
  {e \in RecoveryErrors : e.code \in {"ECONNREFUSED", "EPROTO"}}
NextDialogs ==
  \/ \E error \in DialogErrors : HandleErrorCall(error)
  \/ ResetCall
  \/ \E i \in DOMAIN dialogs, choice \in RecoveryChoices :
       DialogChoice(i, choice)
  \/ \E slot \in DOMAIN fixes, ok \in BOOLEAN : ToggleSettles(slot, ok)
  \/ \E slot \in DOMAIN fixes, ok \in BOOLEAN : RedetectSettles(slot, ok)
  \/ \E slot \in DOMAIN fixes : DelayElapses(slot)
InitDialogs == InitService /\ scope = "dialogs"
SpecDialogs == InitDialogs /\ [][NextDialogs]_vars
SpecRediscovery == InitRediscovery /\ [][NextRediscovery]_vars
SpecRecovery == InitRecovery /\ [][NextRecovery]_vars

Spec == Init /\ [][Next]_vars
SpecTransport == InitTransport /\ [][NextTransport]_vars
\* a pending setTimeout fires, a request settles (each has a timeout) and
\* an await resumes
SpecTimers ==
  /\ InitTimers
  /\ [][NextTimers]_vars
  /\ WF_vars(RetryTimerFires) /\ WF_vars(RequestFails) /\ WF_vars(Continuation)

InitSuppression == InitService /\ scope = "suppression"
\* a pending setTimeout fires and an await resumes
SpecSuppression ==
  /\ InitSuppression
  /\ [][NextSuppression]_vars
  /\ WF_vars(RetryTimerFires) /\ WF_vars(Continuation)

\* ================================================================ claims

\* -------------------------------------------------------------------- C1
\* C1: a network request (TLS or plaintext fallback) is transmitted only
\* with a non-empty CSRF token as its CSRF header, the token configured
\* when the fetch was entered; a fetch entered with an empty or unset token
\* fails with the missing-token error and transmits nothing.
C1_TokenOnEveryRequest ==
  /\ \A w \in sent : w.csrfHeader \notin {None, ""}
  /\ \A r \in BagToSet(inflight) : r.csrfToken \notin {None, ""}
  /\ (started # None /\ sent # {})
       => \A w \in sent : w.useHttps /\ w.csrfHeader = csrfToken
  /\ (started # None /\ csrfToken \in {None, ""})
       => (sent = {} /\ caught = MissingTokenError)

\* a timer-driven fetch with the empty token failed before any I/O
C1_MissingTokenWitness ==
  /\ op.name = "retry" /\ started = "doFetchQuota"
  /\ csrfToken = "" /\ caught = MissingTokenError /\ sent = {}

\* -------------------------------------------------------------------- C6
\* the protocol-mismatch signature of the claim, on the network outcomes
MismatchSignature(o) ==
  /\ o.kind = "error"
  /\ \/ o.error.code = "EPROTO"
     \/ o.error.message = "SSL routines:ssl3_get_record:WRONG_VERSION_NUMBER"

\* an alternate port is known: a fallback port other than the TLS port
AlternatePortKnown(req) ==
  req.httpPort # NoPort /\ req.httpPort # req.targetPort

TlsAttemptFailed(o) ==
  o.kind \in {"error", "timeout"} \/ o.statusCode # 200 \/ ~o.json

PlaintextSent == \E w \in sent' : ~w.useHttps

\* every other failure of the TLS attempt propagates, with no plaintext
\* request
OtherFailurePropagates(req, o) ==
  (TlsAttemptFailed(o) /\ ~PlaintextSent)
    => (sent' = {} /\ caught' = DoRequestResult(o).error
        /\ op'.result = "failed")

FetchFailedStep == op'.result = "failed" /\ op'.kind # "fetchQuotaData"
\* the pending retry timers, less the one whose callback this step is
RetryBase == IF op'.name = "retry" THEN Tail(retryTimers) ELSE retryTimers
Emitted(type) == \E i \in DOMAIN emitted' : emitted'[i].type = type

OneRetryScheduled ==
  /\ retryTimers' = Append(RetryBase, 5000)
  /\ ~Emitted(QUOTA_FETCH_ERROR)
EngineStopped ==
  /\ pollingInterval' = 0
  /\ pollingInterval # 0 => intervalTimers'[pollingInterval] = 0
  /\ Emitted(QUOTA_FETCH_ERROR)
  /\ retryTimers' = RetryBase

\* C2 as claimed: after the k-th consecutive failed fetch with k < 3 exactly
\* one retry is scheduled after 5 s; at the 3rd consecutive failure the
\* engine stops: interval timer cancelled, terminal QUOTA_FETCH_ERROR
\* emitted, no retry scheduled.
C2_StopsAtThirdFailure ==
  [][FetchFailedStep =>
       /\ consecutiveErrors' < 3 => OneRetryScheduled
       /\ consecutiveErrors' = 3 => EngineStopped]_vars

\* C2, amended: after the k-th consecutive failed fetch with k <= 3 exactly
\* one retry is scheduled after 5 s (three retries in all); at the 4th and
\* any later consecutive failure the engine stops: interval timer cancelled,
\* terminal QUOTA_FETCH_ERROR emitted, no retry scheduled.
C2_RetryInvariant ==
  [][FetchFailedStep =>
       /\ consecutiveErrors' <= 3 => OneRetryScheduled
       /\ consecutiveErrors' >= 4 => EngineStopped]_vars

\* the 4th consecutive failure of a polling fetch stopped the engine
C2_ExhaustedWitness ==
  /\ op = Op("response", "retry", "failed")
  /\ consecutiveErrors = 4 /\ retryCount = 3 /\ halted = "exhausted"
  /\ pollingInterval = 0 /\ retryTimers = <<>>

\* -------------------------------------------------------------------- C3
\* C3: once the engine is Stopped because retries were exhausted, no timer
\* callback starts a fetch and isPolling() stays false, until
\* retryFromError or startPolling is called.
C3_StoppedUntilExplicitCall ==
  [][(halted = "exhausted" /\ op'.name \notin {"startPolling", "retryFromError"})
       => /\ pollingInterval' = 0
          /\ op'.name \in {"interval", "retry"} => started' = None]_vars

\* -------------------------------------------------------------------- C4
\* C4: at most one interval timer created by setInterval and not yet
\* cleared exists at any time.
C4_AtMostOneIntervalTimer ==
  Cardinality({id \in DOMAIN intervalTimers : intervalTimers[id] # 0}) <= 1

\* -------------------------------------------------------------------- C5
\* C5: at most one fetch started by the scheduler (the immediate fetch of
\* startPolling, an interval tick, a retry timer) is in flight at any time.
C5_OneScheduledFetchInFlight ==
  LET scheduled == {r \in BagToSet(inflight) :
                      r.kind \in {"startPolling", "interval", "retry"}}
  IN BagCardinality([r \in scheduled |-> inflight[r]]) <= 1

\* -------------------------------------------------------------------- C7
ApplicationErrors ==
  {o \in NetOutcomes : /\ o.kind = "response" /\ o.statusCode = 200 /\ o.json
                       /\ o.code = "PERMISSION_DENIED"}

\* C7: a polling fetch that receives HTTP 200 with a non-success application
\* code emits nothing, leaves consecutiveErrors and retryCount as they were,
\* schedules no retry and leaves the interval timer as it was.
C7_ApplicationErrorSkipped ==
  [][\A req \in BagToSet(inflight), o \in ApplicationErrors :
       (/\ op'.name = "response" /\ req.kind # "fetchQuotaData"
        /\ ResponseArrives(req, o))
         => /\ emitted' = <<>>
            /\ UNCHANGED <<consecutiveErrors, retryCount, isRetrying,
                           isFirstAttempt, retryTimers, pollingInterval,
                           intervalTimers, halted>>]_vars

\* a retry fetch met an application error after one transport failure
C7_SkippedWitness ==
  /\ op = Op("response", "retry", "skipped")
  /\ consecutiveErrors = 1 /\ retryCount = 1 /\ pollingInterval # 0
  /\ emitted = <<>>

\* -------------------------------------------------------------------- C8
\* C8: a retryFromError whose fetch fails leaves the engine Stopped: no
\* interval timer is armed and no timer callback starts a fetch, until
\* retryFromError or startPolling is called again.
C8_FailedRetryStaysStopped ==
  [][/\ (op'.name = "continuation" /\ op'.result = "stopped")
          => pollingInterval' = 0
     /\ (halted = "retryFailed"
         /\ op'.name \notin {"startPolling", "retryFromError"})
          => /\ pollingInterval' = 0
             /\ op'.name \in {"interval", "retry"} => started' = None]_vars

\* -------------------------------------------------------------------- C9
\* C9: retryFromError(interval) called in the Stopped state, its fetch
\* succeeding: when it returns, consecutiveErrors = 0, retryCount = 0,
\* isRetrying = false and exactly one interval timer, of that interval, is
\* armed.
C9_RecoveryResumesPolling ==
  [][(/\ op = Op("response", "retryFromError", "success")
      /\ halted = "recovering"
      /\ op'.name = "continuation")
       => /\ consecutiveErrors' = 0 /\ retryCount' = 0 /\ ~isRetrying'
          /\ pollingInterval' # 0
          /\ {id \in DOMAIN intervalTimers' : intervalTimers'[id] # 0}
               = {pollingInterval'}
          /\ intervalTimers'[pollingInterval'] = microtask.intervalMs]_vars

\* ------------------------------------------------------------------- C10
StartPollingInProgress ==
  BagCardinality([r \in {q \in BagToSet(inflight) : q.kind = "startPolling"}
                    |-> inflight[r]])
  + (IF microtask.kind = "startPolling" THEN 1 ELSE 0)

\* an accepted call cancels the interval timer held and raises the flag
AcceptedStart ==
  /\ pollingInterval # 0 => intervalTimers'[pollingInterval] = 0
  /\ pollingInterval' = 0
  /\ isPollingTransition'
\* a dropped call cancels nothing, fetches nothing, arms nothing
DroppedStart ==
  /\ UNCHANGED <<qsVars, loopVars>>
  /\ started' = None /\ sent' = {} /\ emitted' = <<>>
\* the call completes: one new timer of the interval given, flag cleared
CompletedStart ==
  /\ ~isPollingTransition'
  /\ intervalTimers[pollingInterval'] = 0
  /\ intervalTimers' =
       [intervalTimers EXCEPT ![pollingInterval'] = microtask.intervalMs]
SingleFlight ==
  /\ StartPollingInProgress <= 1
  /\ isPollingTransition <=> StartPollingInProgress = 1

\* C10 as claimed: startPolling cancels the interval timer, performs
\* exactly one immediate fetch, then arms one interval timer; a call made
\* while another is in progress is dropped; the flag is cleared when the
\* first call completes, whatever its fetch did.
C10_StartPollingAlwaysFetches ==
  /\ [][/\ op'.name = "startPolling" =>
             IF isPollingTransition
               THEN DroppedStart
               ELSE AcceptedStart /\ started' = "doFetchQuota"
        /\ (op'.name = "continuation" /\ microtask.kind = "startPolling")
             => CompletedStart]_vars
  /\ []SingleFlight

\* C10, amended: as claimed, but the immediate fetch is made only when no
\* retry is pending (isRetrying false at the call); with a retry pending
\* startPolling fetches nothing and just arms the interval timer.
C10_StartPollingSingleFlight ==
  /\ [][/\ op'.name = "startPolling" =>
             IF isPollingTransition
               THEN DroppedStart
               ELSE /\ AcceptedStart
                    /\ started' = IF isRetrying THEN None ELSE "doFetchQuota"
        /\ (op'.name = "continuation" /\ microtask.kind = "startPolling")
             => CompletedStart]_vars
  /\ []SingleFlight

\* a startPolling call was dropped while another was in progress
C10_DroppedWitness ==
  /\ op = Op("startPolling", "startPolling", "dropped")
  /\ isPollingTransition /\ StartPollingInProgress = 1

\* ------------------------------------------------------------------- C11
\* C11: after stopPolling() has returned, and until startPolling or
\* retryFromError is next invoked, no timer callback (interval tick or
\* pending retry) starts a fetch and isPolling() stays false; stopPolling
\* itself leaves the requests in flight as they are.
C11_StopPollingQuiesces ==
  [][/\ op'.name = "stopPolling"
          => (pollingInterval' = 0 /\ inflight' = inflight)
     /\ (stopCall = "stopped"
         /\ op'.name \notin {"startPolling", "retryFromError"})
          => /\ pollingInterval' = 0
             /\ op'.name \in {"interval", "retry"} => started' = None]_vars

\* ------------------------------------------------------------------- C12
\* retryCount as the catch block of the failed fetch found it (retryFromError
\* resets it before its fetch)
RetryCountAtFailure == IF op'.name = "retryFromError" THEN 0 ELSE retryCount
EmittedEvent(event) == \E i \in DOMAIN emitted' : emitted'[i] = event

StoppedForGood ==
  /\ halted = "exhausted"
  /\ pollingInterval = 0 /\ LiveTimers(Current) = {}
  /\ retryTimers = <<>>

\* C13: with every fetch failing and only timer callbacks after
\* startPolling, under fair timer firing the engine eventually emits the
\* terminal QUOTA_FETCH_ERROR and is Stopped from then on, with no interval
\* timer and no retry timer pending.
C13_RetriesTerminate == (op.name = "startPolling") ~> []StoppedForGood

\* the engine at rest after the terminal error of a retry fetch
C13_StoppedWitness ==
  /\ StoppedForGood /\ inflight = EmptyBag
  /\ op = Op("response", "retry", "failed")
  /\ Len(emitted) = 1 /\ emitted[1].type = QUOTA_FETCH_ERROR

\* ------------------------------------------------------------------- C14
\* C14: whenever a fetch fired by the retry timer succeeds, the interval
\* timer is armed afterwards (isPolling() true) and no retry is pending;
\* stated for the runs in which no client has called stopPolling(), where
\* the exception of the claim cannot apply.
C14_RetrySuccessArmsTimer ==
  [][(op' = Op("response", "retry", "success") /\ stopCall' = "never")
       => (pollingInterval' # 0 /\ intervalTimers'[pollingInterval'] # 0)]_vars

\* ------------------------------------------------------------------- C15
DetectingRuns == {i \in DOMAIN runs : runs[i].phase = "detecting"}

\* C15: at most one rediscovery (a detectPort run awaiting the detection)
\* is in flight at any time; in particular the run started by a terminal
\* fetch error and the run started by the auto-fix are never in flight
\* together.
C15_SingleRediscovery == Cardinality(DetectingRuns) <= 1

\* ------------------------------------------------------------------- C16
TerminalError == Emitted(QUOTA_FETCH_ERROR)
AutomaticStarted ==
  \E i \in DOMAIN runs' : i > Len(runs) /\ runs'[i].origin = "automatic"

\* C16: a step that emits the terminal QUOTA_FETCH_ERROR starts an
\* automatic rediscovery exactly if none was started before or the last
\* one was started more than three minutes ago; no other step starts one,
\* so two automatic rediscoveries start more than three minutes apart.
C16_AutomaticRediscoveryGate ==
  [][/\ TerminalError =>
          (AutomaticStarted <=>
             \/ lastAutoRedetectTime = 0
             \/ now - lastAutoRedetectTime > 3 * Minute)
     /\ AutomaticStarted =>
          /\ TerminalError
          /\ lastAutoRedetectTime' = now
          /\ lastAutoRedetectTime # 0 => now - lastAutoRedetectTime > 3 * Minute
    ]_vars

\* a terminal error inside the three minutes has started no rediscovery
C16_GatedWitness ==
  /\ op = Op("response", "retry", "failed")
  /\ \E i \in DOMAIN emitted : emitted[i].type = QUOTA_FETCH_ERROR
  /\ lastAutoRedetectTime # 0
  /\ now - lastAutoRedetectTime <= 3 * Minute
  /\ \A i \in DOMAIN runs : runs[i].origin # "automatic"

\* ------------------------------------------------------------------- C17
DialogShown == Len(dialogs') > Len(dialogs)
RecentRecords ==
  {i \in DOMAIN errorHistory' : now' - errorHistory'[i].timestamp < 5 * Minute}

\* C17: a recovery dialog is shown only by handleError and only if at
\* least three records of the history, the one of the current error
\* included, are less than five minutes old.
C17_DialogNeedsThreeRecent ==
  [][DialogShown =>
       /\ op'.name = "handleError"
       /\ Cardinality(RecentRecords) >= 3
       /\ errorHistory'[Len(errorHistory')].timestamp = now'
    ]_vars

\* the third error of the last five minutes, after an older one, has
\* brought up the dialog
C17_ThirdRecentWitness ==
  /\ op.name = "handleError"
  /\ dialogs # <<>>
  /\ Len(errorHistory) = 4
  /\ now - errorHistory[1].timestamp >= 5 * Minute
  /\ \A i \in 2..4 : errorHistory[i].timestamp = now

\* ------------------------------------------------------------------- C18
\* C18: for ten minutes after an auto-fix was attempted handleError shows
\* no recovery dialog; later than that, a handleError that finds three
\* recent errors shows it again.
C18_TenMinuteCooldown ==
  [][/\ (DialogShown /\ lastAutoFix # 0) => now - lastAutoFix >= 10 * Minute
     /\ ( /\ op'.name = "handleError"
          /\ Cardinality(RecentRecords) >= 3
          /\ lastAutoFix # 0 /\ now - lastAutoFix > 10 * Minute )
        => DialogShown
    ]_vars

\* ------------------------------------------------------------------- C19
\* the callbacks attemptAutoFix invokes for an error type, in order
AutoFixPlan(type) ==
  IF type = PROTOCOL_ERROR THEN <<"toggle", "redetect">> ELSE <<"redetect">>
IsPrefix(s, t) == Len(s) <= Len(t) /\ s = SubSeq(t, 1, Len(s))
Ended(slot) == fixes[slot].pc # "idle" /\ fixes'[slot].pc = "idle"
Rediscoveries(calls) == Cardinality({i \in DOMAIN calls : calls[i] = "redetect"})

C20_OneFallbackPerSend ==
  [][/\ op'.name # "response" => \A w \in sent' : w.useHttps
     /\ op'.name = "response" =>
          \E req \in BagToSet(inflight) :
            LET rest == inflight (-) SetToBag({req})
            IN \/ /\ sent' = {} /\ inflight' = rest
                  /\ ( /\ ~req.useHttps
                       /\ op'.result \notin {"success", "skipped"} )
                     => op'.result = "failed" /\ caught' # NoError
               \/ /\ req.useHttps
                  /\ \E r \in BagToSet(inflight') :
                       /\ ~r.useHttps /\ r.targetPort = req.httpPort
                       /\ sent' = {WireRequest(r)}
                       /\ inflight' = rest (+) SetToBag({r})
    ]_vars

\* the TLS request has failed on a protocol mismatch and the plaintext
\* fallback is on its way
C20_FallbackWitness ==
  /\ op.name = "response" /\ op.result = "fallback"
  /\ IsProtocolMismatch(caught)
  /\ \E r \in BagToSet(inflight) : ~r.useHttps /\ WireRequest(r) \in sent
  /\ BagCardinality(inflight) = 1

\* ------------------------------------------------------------------- C21
\* C21: in every reachable state retryCount lies in 0..3 and
\* httpFallbackCount in 0..5.
C21_CountersBounded ==
  /\ 0 <= retryCount /\ retryCount <= 3
  /\ 0 <= httpFallbackCount /\ httpFallbackCount <= 5

\* the retry budget is used up and a further fetch has failed
C21_BudgetUsedWitness ==
  /\ retryCount = 3 /\ consecutiveErrors > 3
  /\ op.result = "failed"

\* ------------------------------------------------------------------- C23
InitialPollingState ==
  /\ consecutiveErrors' = 0 /\ retryCount' = 0 /\ isRetrying' = FALSE
  /\ isPollingTransition' = FALSE /\ httpFallbackCount' = 0

\* C23: right after setConnectionInfo, and right after the reset of
\* retryFromError (observed when the fetch that follows it is sent or
\* skipped, which changes none of the five), consecutiveErrors,
\* retryCount, isRetrying, isPollingTransition and httpFallbackCount all
\* hold their initial values.
C23_PollingStateResetTogether ==
  [][/\ op'.name = "setConnectionInfo" => InitialPollingState
     /\ (op'.name = "retryFromError" /\ op'.result # "failed")
          => InitialPollingState
    ]_vars

\* ------------------------------------------------------------------- C22
\* C22: no more than 5 plaintext HTTP fallback requests are made between
\* one setConnectionInfo and the next.
C22_FallbackLimitedToFive == fallbackRequests <= MAX_HTTP_FALLBACK_COUNT

\* ------------------------------------------------------------------- C24
\* C24: the history never holds more than 20 records, and recording an
\* error leaves the most recently recorded ones in arrival order: the new
\* record (its type, the time of recording) is last, the records before it
\* keep their order, and the oldest one is gone when there were 20 already.
C24_HistoryKeepsNewestTwenty ==
  [][/\ Len(errorHistory') <= 20
     /\ op'.name = "recordError" =>
          LET n == Len(errorHistory')
              newest == errorHistory'[n]
              arrived == Append(errorHistory, newest)
              first == IF Len(arrived) > 20 THEN Len(arrived) - 19 ELSE 1
          IN /\ n >= 1
             /\ newest.timestamp = now /\ newest.type = CategorizeError(caught')
             /\ errorHistory' = SubSeq(arrived, first, Len(arrived))
    ]_vars

\* a record was evicted from a full history whose oldest and newest
\* records differ
C24_EvictionWitness ==
  /\ op.name = "recordError" /\ op.result = "shifted"
  /\ Len(errorHistory) = 20
  /\ errorHistory[1].timestamp < errorHistory[20].timestamp

\* ------------------------------------------------------------------- C25
FailureEvents == SelectSeq(emitted', LAMBDA e : e.type = PORT_DETECTION_FAILED)

\* C25: PortDetectionService.detectPort and ServiceOrchestrator.detectPort
\* never reject. When the detector finds no process or throws, the
\* service's call resolves to null with the detection-failure event
\* emitted, the orchestrator goes on to its retry dialog, and when the
\* dialog is closed the orchestrator's call returns false to its caller
\* (the auto-fix that awaits it resumes outside its catch block).
C25_DetectionFailureIsAValue ==
  [][/\ \A i \in DOMAIN runs' : runs'[i].detected # "rejected"
     /\ (op'.name = "detection" /\ op'.result = "failed") =>
          /\ Len(FailureEvents) >= 1
          /\ \E i \in DOMAIN runs' :
                /\ runs[i].phase = "detecting" /\ runs'[i].phase = "warning"
                /\ runs'[i].detected = "null"
     /\ (op'.name = "warning" /\ op'.result = "close") =>
          /\ returned' = "false"
          /\ \A slot \in DOMAIN fixes :
                fixes[slot].pc = "redetect" /\ fixes'[slot].pc = "idle"
                  => \E k \in DOMAIN resetTimers' :
                       resetTimers'[k] = now + AutoFixResetMs
    ]_vars

\* the detector threw during a rediscovery started by an auto-fix, and
\* the failure was reported
C25_DetectorThrewWitness ==
  /\ op.name = "detection" /\ op.result = "failed" /\ op.kind = "autofix"
  /\ caught = DetectorError
  /\ \E i \in DOMAIN runs :
        /\ runs[i].phase = "warning" /\ runs[i].detected = "null"
        /\ runs[i].slot # 0
  /\ Len(SelectSeq(emitted, LAMBDA e : e.type = PORT_DETECTION_FAILED)) = 3

\* ------------------------------------------------------------------- C26
Emitting == busOp'.name \in {"emit", "emitAsync"}
Throwers(subs) == SelectSeq(subs, LAMBDA s : s.behaviour = "throws")
ReportsOf(sub, handler) ==
  {k \in DOMAIN reports' : reports'[k] = [handler |-> handler, sub |-> sub]}

\* C26: when emit or emitAsync meets a handler that throws, every
\* subscription of the event type still has its handler invoked exactly
\* once with the payload, the error reaches every registered global error
\* handler once (also when one of these throws), and the call does not
\* throw; a promise of a handler that rejects later is reported to every
\* registered global error handler as well.
C26_HandlerErrorsIsolated ==
  [][/\ Emitting =>
          LET subs == Subscribed(busOp'.event)
          IN /\ ~busOp'.threw
             /\ invoked' = [i \in DOMAIN subs |->
                              [sub |-> subs[i].id,
                               payload |-> PayloadOf(busOp'.event)]]
             /\ Len(reports') = Len(Throwers(subs)) * Len(errorHandlers)
             /\ \A s \in Range(Throwers(subs)), h \in Range(errorHandlers) :
                   Cardinality(ReportsOf(s.id, h.id)) = 1
     /\ busOp'.name = "rejected" =>
          /\ Len(reports') = Len(errorHandlers)
          /\ \A h \in Range(errorHandlers) :
                \E k \in DOMAIN reports' : reports'[k].handler = h.id
    ]_vars

\* the first of two handlers threw, the second was invoked, and the error
\* reached both global error handlers although the first of these throws
C26_ThrowerFirstWitness ==
  /\ busOp.name = "emit" /\ Len(invoked) = 2 /\ Len(reports) = 2
  /\ Len(subscriptions) = 2
  /\ subscriptions[1].behaviour = "throws"
  /\ invoked[1].sub = subscriptions[1].id
  /\ invoked[2].sub = subscriptions[2].id
  /\ Len(errorHandlers) = 2 /\ errorHandlers[1].throws

\* ------------------------------------------------------------------- C27
\* C27: the handler of a once() subscription is invoked at most once, over
\* any interleaving of emit and emitAsync calls.
C27_OnceFiresAtMostOnce == \A id \in DOMAIN fired : fired[id] <= 1

\* ------------------------------------------------------------------- C28
\* C28: once the dispose() of a subscription has returned, no step invokes
\* its handler; a repeated dispose() changes nothing; a dispose() deletes
\* that subscription only, and every emit goes on to invoke the handlers
\* of all subscriptions of its type that are left.
C28_DisposedSubscriptionSilent ==
  [][/\ \A k \in DOMAIN invoked' : invoked'[k].sub \notin unsubscribed
     /\ busOp'.name = "subscriptionDispose" =>
          IF unsubscribed' = unsubscribed
            THEN subscriptions' = subscriptions
            ELSE \E id \in unsubscribed' \ unsubscribed :
                   /\ unsubscribed' = unsubscribed \cup {id}
                   /\ subscriptions' =
                        SelectSeq(subscriptions, LAMBDA s : s.id # id)
     /\ Emitting =>
          {invoked'[k].sub : k \in DOMAIN invoked'}
            = Ids(Subscribed(busOp'.event))
    ]_vars

\* one of two subscriptions of an event type was disposed and the other
\* one is still subscribed
C28_OtherStaysSubscribedWitness ==
  /\ busOp.name = "subscriptionDispose" /\ busOp.event # None
  /\ Cardinality(unsubscribed) = 1
  /\ \E s \in Range(subscriptions) :
        s.event = busOp.event /\ s.id \notin unsubscribed

\* ------------------------------------------------------------------- C29
\* C29: on a disposed bus no step invokes a handler, emit and emitAsync
\* do nothing, on() and once() throw and subscribe nothing, the
\* subscription count of every event type is 0, and dispose() changes
\* nothing.
C29_DisposedBusInert ==
  [][/\ busDisposed' => \A event \in BusEvents :
                           Len(SelectSeq(subscriptions',
                                         LAMBDA s : s.event = event)) = 0
     /\ busDisposed =>
          /\ busDisposed'
          /\ invoked' = <<>>
          /\ busOp'.name \in {"on", "once"} =>
                busOp'.threw /\ subscriptions' = subscriptions
          /\ busOp'.name = "dispose" =>
                UNCHANGED <<subscriptions, errorHandlers, asyncEmits, promises>>
    ]_vars

\* on() was called on a bus disposed with live subscriptions and threw
C29_OnAfterDisposeWitness ==
  /\ busDisposed /\ created >= 1 /\ unsubscribed = {}
  /\ busOp.name = "on" /\ busOp.threw

\* ------------------------------------------------------------------- C30
Singletons(svcs) == {r \in Range(svcs) : r.lifecycle = Singleton}

\* C30 as stated: for a registration with the Singleton lifecycle the
\* factory is invoked at most once and every resolve returns the same
\* instance.
C30_FactoryInvokedAtMostOnce ==
  \A r \in Singletons(services) : r.calls <= 1 /\ Cardinality(r.resolved) <= 1

\* C30 amended: once the factory of a Singleton registration has returned
\* an instance, no resolve (nested in another factory or not) invokes it
\* again and every resolve of the identifier returns that instance; the
\* factory is invoked only while the registration holds no instance, so
\* one that throws or returns undefined is invoked by each resolve.
C30_SingletonCreatedOnce ==
  [][\A r \in Singletons(services), q \in Singletons(services') :
       (containerOp'.name = "resolve" /\ q.id = r.id) =>
         /\ Cardinality(q.resolved) <= 1
         /\ r.instance # 0 =>
               /\ q.calls = r.calls /\ q.instance = r.instance
               /\ q.resolved \subseteq {r.instance}
         /\ (containerOp'.id = q.id /\ ~containerOp'.completion.threw) =>
               containerOp'.completion.value = q.instance
    ]_vars

\* a Singleton was created by a resolve nested in the factory of a
\* Transient, and the second resolve of the Transient got the same instance
C30_NestedResolveWitness ==
  /\ containerOp.name = "resolve" /\ ~containerOp.completion.threw
  /\ \E r \in Singletons(services), q \in Range(services) :
        /\ r.instance # 0 /\ r.calls = 1 /\ r.resolved = {r.instance}
        /\ q.lifecycle = Transient /\ q.factory.deps = <<r.id>>
        /\ q.id = containerOp.id /\ q.calls = 2

\* ------------------------------------------------------------------- C31
\* the resolves that resolve(id) sets off, followed through the factories,
\* come back to an identifier that is being resolved
RECURSIVE Reenters(_, _, _)
Reenters(svcs, id, visiting) ==
  /\ Has(svcs, id)
  /\ \/ id \in visiting
     \/ LET r == svcs[IndexOf(svcs, id)]
        IN /\ ~(r.lifecycle = Singleton /\ r.instance # 0)
           /\ r.factory.deps # <<>>
           /\ Reenters(svcs, r.factory.deps[1], visiting \cup {id})

\* C31: a resolve throws the circular-dependency error exactly when its
\* chain of nested resolves comes back to an identifier being resolved,
\* through a direct or an indirect cycle; after every resolve, one that
\* threw included, no identifier is left marked as being resolved.
C31_CycleDetectedAndCleared ==
  [][containerOp'.name = "resolve" =>
       /\ resolving' = {}
       /\ (~containerDisposed /\ Reenters(services, containerOp'.id, {}))
            <=> (/\ containerOp'.completion.threw
                 /\ containerOp'.completion.error = CircularError)
    ]_vars

\* after a resolve that met the cycle between B and C, a service outside
\* the cycle was resolved
C31_ResolveAfterCycleWitness ==
  /\ containerOp.name = "resolve" /\ ~containerOp.completion.threw
  /\ containerOp.completion.value # 0
  /\ \E b, c \in Range(services) :
        /\ b.id = "ServiceB" /\ c.id = "ServiceC"
        /\ b.factory.deps = <<"ServiceC">> /\ c.factory.deps = <<"ServiceB">>
        /\ b.calls = 1 /\ c.calls = 1 /\ b.instance = 0 /\ c.instance = 0
  /\ containerOp.id = "ServiceA"

\* ------------------------------------------------------------------- C32
\* C32: once the container is disposed, dispose() has been called exactly
\* once on every Singleton instance the container created whose object has
\* a dispose method.
C32_EveryCreatedSingletonDisposed ==
  containerDisposed =>
    \A made \in singletonsCreated :
      DisposeOf(made.id) # "none" =>
        Cardinality({k \in DOMAIN disposals : disposals[k] = made.object}) = 1

\* ------------------------------------------------------------------- C33
QuickRefreshRequests == {"quickRefreshQuota", "quickMenuRefresh"}
Requested == BagCardinality(inflight') - BagCardinality(inflight)

\* C33: a quick-refresh request made less than five seconds after an
\* accepted quick refresh, through the command or through the quick menu,
\* starts no fetch.
C33_NoFetchWithinCooldown ==
  [][(/\ op'.name \in QuickRefreshRequests
      /\ now - lastQuickRefreshTime < QuickRefreshCooldown)
       => started' = None /\ Requested = 0 /\ emitted' = <<>>
    ]_vars

\* ------------------------------------------------------------------- C39
\* C39: an execution of the command quickRefreshQuota outside the cooldown
\* sends exactly one fetch request.
C39_AcceptedRefreshFetchesOnce ==
  [][(op'.name = "quickRefreshQuota" /\ op'.result = "accepted")
       => Requested = 1
    ]_vars

\* ------------------------------------------------------------------- C35
\* C35: the error of a request that exceeded its deadline is recorded with
\* the type TIMEOUT.
C35_DeadlineErrorIsTimeout ==
  [][(op'.name = "recordError" /\ caught' = TimeoutError)
       => errorHistory'[Len(errorHistory')].type = TIMEOUT
    ]_vars

\* ------------------------------------------------------------------- C34
PollingSteps == {"startPolling", "interval", "retry"}
StartEvents(events) ==
  {k \in DOMAIN events : events[k].type = QUOTA_FETCH_START}

\* C34: a step of the polling (startPolling, an interval callback, a retry
\* callback) that performs a fetch emits one QUOTA_FETCH_START, before
\* anything else.
C34_StartBeforeEachPollingFetch ==
  [][(op'.name \in PollingSteps /\ started' = "doFetchQuota")
       => StartEvents(emitted') = {1}
    ]_vars

\* ------------------------------------------------------------------- C36
\* C36: a detectPort run that finds no endpoint adds exactly one ErrorRecord
\* to the error history (handleError records one error per invocation).
C36_OneRecordPerFailedDetection ==
  [][(op'.name = "detection" /\ op'.result = "failed")
       => Len(errorHistory') = Len(errorHistory) + 1
    ]_vars

\* ------------------------------------------------------------------- C37
\* C37: at most one recovery dialog of ErrorRecoveryService awaits its
\* answer.
C37_OneDialogPending == Len(dialogs) <= 1

\* ------------------------------------------------------------------- C38
\* C38: once dispose() has returned, no step of the service enters a fetch
\* and none arms an interval timer.
C38_InertAfterDispose ==
  [][disposed =>
       /\ started' = None
       /\ \A id \in DOMAIN intervalTimers :
            intervalTimers[id] = 0 => intervalTimers'[id] = 0
    ]_vars

\* ------------------------------------------------------------------- C40
\* C40: isRetrying is true only while a retry timer is pending, and under
\* fair timer firing whenever isRetrying is true it becomes false again.
C40_SuppressionEnds ==
  /\ [](isRetrying => retryTimers # <<>>)
  /\ isRetrying ~> ~isRetrying

\* a retry callback has cleared the flag while the interval timer is armed
\* and another retry timer is still pending
C40_FlagClearedWitness ==
  /\ op.name = "retry" /\ ~isRetrying
  /\ pollingInterval # 0 /\ retryTimers # <<>>
====
